---- MODULE Spec2Model ----
(***************************************************************************)
(* The signed swift token of rgw (src/rgw/rgw_swift_auth.cc): build_token, *)
(* encode_token and rgw_swift_verify_signed_token, with the account store, *)
(* the clock and the random source as the environment.                     *)
(*                                                                         *)
(* Data representation.  A buffer is a sequence of cells and a token       *)
(* string a sequence of character cells:                                   *)
(*   <<"b", n>>                    a byte with value n (0..255)            *)
(*   <<"m", j, dh, dl, k, msg>>    byte j of the digest HMAC-SHA1(k, msg), *)
(*                                 its high/low hex digit shifted by dh/dl *)
(*   <<"u", c1, c2>>               a byte decoded from a digit pair that   *)
(*                                 does not come from one digest byte      *)
(*   <<"c", s>>                    the character s                         *)
(*   <<"h", j, half, d, k, msg>>   the hex digit of the high (half = 1) or *)
(*                                 low (half = 2) nibble of digest byte j, *)
(*                                 shifted by d (mod 16)                   *)
(* The digest is a free term: two digests are equal exactly when key and   *)
(* message are equal (a collision-free MAC).  An unsigned integer is the   *)
(* sequence of its base-256 digits, most significant first, so that values *)
(* above 2^31 decoded from a token can be held.                            *)
(***************************************************************************)
EXTENDS Integers, Sequences, FiniteSets, TLC

EPERM == 1
ENOENT == 2
EIO == 5
EINVAL == 22

\* CEPH_CRYPTO_HMACSHA1_DIGESTSIZE
DIGESTSIZE == 20

\* RGW_SWIFT_TOKEN_EXPIRATION, seconds (15 minutes)
RGW_SWIFT_TOKEN_EXPIRATION == 900

\* strncmp(token, "AUTH_rgwtk", 10)
PrefixLen == 10

HexChars == <<"0", "1", "2", "3", "4", "5", "6", "7",
              "8", "9", "a", "b", "c", "d", "e", "f">>

PrefixChars == <<"A", "U", "T", "H", "_", "r", "g", "w", "t", "k">>

Byte(n) == <<"b", n>>

Chr(s) == <<"c", s>>

IsByte(x) == x[1] = "b"

Cells(s) == [i \in 1..Len(s) |-> Byte(s[i])]

AllBytes(cs) == \A i \in 1..Len(cs) : IsByte(cs[i])

Plain(cs) == [i \in 1..Len(cs) |-> cs[i][2]]

Reverse(s) == [i \in 1..Len(s) |-> s[Len(s) + 1 - i]]

----------------------------------------------------------------------------
(* Bitwise OR of two bytes: k[i % DIGESTSIZE] |= *s *)

RECURSIVE BitOr(_, _, _)
BitOr(a, b, n) ==
    IF n = 0 THEN 0
    ELSE (IF a % 2 = 1 \/ b % 2 = 1 THEN 1 ELSE 0)
         + 2 * BitOr(a \div 2, b \div 2, n - 1)

RECURSIVE FoldFrom(_, _, _)
FoldFrom(key, j, i) ==
    IF i > Len(key) THEN 0
    ELSE BitOr(key[i], FoldFrom(key, j, i + DIGESTSIZE), 8)

\* the fold with "=" in place of "|=": the last byte written stays
FoldKey_assign(key) ==
    [j \in 1..DIGESTSIZE |->
        IF j > Len(key) THEN 0
        ELSE key[j + DIGESTSIZE * ((Len(key) - j) \div DIGESTSIZE)]]

\* The key fold of build_token: k is zeroed, then every byte of the secret
\* is OR-ed into k[i % DIGESTSIZE] (i counted from 0).
FoldKey(key) == [j \in 1..DIGESTSIZE |-> FoldFrom(key, j, j)]

----------------------------------------------------------------------------
(* Payload codec: ::encode / ::decode of string, uint64_t and utime_t *)

U32(n) == <<Byte((n \div 16777216) % 256), Byte((n \div 65536) % 256),
            Byte((n \div 256) % 256), Byte(n % 256)>>

U64(n) == <<Byte(0), Byte(0), Byte(0), Byte(0)>> \o U32(n)

\* little-endian fixed-width integer
EncodeInt(v) == Reverse(v)

EncodeString(s) == EncodeInt(U32(Len(s))) \o s

EncodeTime(t) == EncodeInt(t.sec) \o EncodeInt(t.nsec)

\* The decoders take the buffer and the iterator position (bytes consumed)
\* and give ok = FALSE where the library throws buffer::end_of_buffer.
DecodeInt(bl, pos, width) ==
    IF pos + width > Len(bl) THEN [ok |-> FALSE, pos |-> pos, val |-> <<>>]
    ELSE [ok |-> TRUE, pos |-> pos + width,
          val |-> Reverse(SubSeq(bl, pos + 1, pos + width))]

\* The length of a string as far as it matters: a length with a byte the
\* buffer cannot hold (or one that is no plain byte) exceeds what is left.
DecodeString(bl, pos) ==
    LET n == DecodeInt(bl, pos, 4)
        fits == /\ n.ok
                /\ AllBytes(n.val)
                /\ n.val[1][2] = 0 /\ n.val[2][2] = 0
        len == IF fits THEN n.val[3][2] * 256 + n.val[4][2] ELSE 0
    IN  IF fits /\ n.pos + len <= Len(bl)
        THEN [ok |-> TRUE, pos |-> n.pos + len,
              val |-> SubSeq(bl, n.pos + 1, n.pos + len)]
        ELSE [ok |-> FALSE, pos |-> pos, val |-> <<>>]

DecodeTime(bl, pos) ==
    LET s == DecodeInt(bl, pos, 4)
        n == DecodeInt(bl, s.pos, 4)
    IN  IF s.ok /\ n.ok
        THEN [ok |-> TRUE, pos |-> n.pos, val |-> [sec |-> s.val, nsec |-> n.val]]
        ELSE [ok |-> FALSE, pos |-> pos, val |-> [sec |-> <<>>, nsec |-> <<>>]]

\* a < b for two unsigned integers of the same width
RECURSIVE DigitsLess(_, _, _)
DigitsLess(a, b, i) ==
    IF i > Len(a) THEN FALSE
    ELSE IF a[i][2] < b[i][2] THEN TRUE
    ELSE IF a[i][2] > b[i][2] THEN FALSE
    ELSE DigitsLess(a, b, i + 1)

\* utime_t operator<: seconds first, then the sub-second fraction.  A time
\* read out of digest bytes has no known value: guess decides.
TimeLess(a, b, guess) ==
    IF ~(AllBytes(a.sec) /\ AllBytes(a.nsec)) THEN guess
    ELSE \/ DigitsLess(a.sec, b.sec, 1)
         \/ a.sec = b.sec /\ DigitsLess(a.nsec, b.nsec, 1)

\* utime_t as the clock gives it, and operator+= of a number of seconds
UTime(sec, nsec) == [sec |-> U32(sec), nsec |-> U32(nsec)]

----------------------------------------------------------------------------
(* Hex transport codec: buf_to_hex / hex_to_buf *)

HexVal(s) == CHOOSE v \in 0..15 : HexChars[v + 1] = s

IsHexChar(c) == c[1] = "h" \/ (c[1] = "c" /\ \E v \in 0..15 : HexChars[v + 1] = c[2])

HexOfCell(x, half) ==
    IF x[1] = "b"
    THEN Chr(HexChars[(IF half = 1 THEN x[2] \div 16 ELSE x[2] % 16) + 1])
    ELSE IF x[1] = "m"
    THEN <<"h", x[2], half, IF half = 1 THEN x[3] ELSE x[4], x[5], x[6]>>
    ELSE x[1 + half]

buf_to_hex(bl) ==
    [i \in 1..(2 * Len(bl)) |-> HexOfCell(bl[(i + 1) \div 2], 2 - (i % 2))]

CellOfHex(c1, c2) ==
    IF c1[1] = "c" /\ c2[1] = "c"
    THEN Byte(16 * HexVal(c1[2]) + HexVal(c2[2]))
    ELSE IF /\ c1[1] = "h" /\ c2[1] = "h"
            /\ c1[3] = 1 /\ c2[3] = 2
            /\ c1[2] = c2[2] /\ c1[5] = c2[5] /\ c1[6] = c2[6]
    THEN <<"m", c1[2], c1[4], c2[4], c1[5], c1[6]>>
    ELSE <<"u", c1, c2>>

\* hex_to_buf(token, p.c_str(), len): a negative result for a character
\* that is no hex digit, the number of bytes otherwise
hex_to_buf(hex) ==
    IF \E i \in 1..Len(hex) : ~IsHexChar(hex[i])
    THEN [ret |-> -EINVAL, buf |-> <<>>]
    ELSE [ret |-> Len(hex) \div 2,
          buf |-> [i \in 1..(Len(hex) \div 2) |-> CellOfHex(hex[2 * i - 1], hex[2 * i])]]

----------------------------------------------------------------------------
(* MAC *)

calc_hmac_sha1(k, msg) == [j \in 1..DIGESTSIZE |-> <<"m", j, 0, 0, k, msg>>]

----------------------------------------------------------------------------
(* Account store: rgw_get_user_info_by_swift.  store maps the user names  *)
(* it knows to their secrets; fault is 0 or the error of a failing store. *)

NoInfo == [swift_name |-> <<>>, swift_key |-> <<>>]

rgw_get_user_info_by_swift(store, fault, os_user, info) ==
    IF fault # 0 THEN [ret |-> fault, info |-> info]
    ELSE IF AllBytes(os_user) /\ Plain(os_user) \in DOMAIN store
    THEN [ret |-> 0,
          info |-> [swift_name |-> Plain(os_user), swift_key |-> store[Plain(os_user)]]]
    ELSE [ret |-> -ENOENT, info |-> info]

----------------------------------------------------------------------------
(* build_token, encode_token *)

\* the payload with the nonce encoded before the user name
Serialize_nonce_first(os_user, nonce, expiration) ==
    EncodeInt(nonce) \o EncodeString(os_user) \o EncodeTime(expiration)

Serialize(os_user, nonce, expiration) ==
    EncodeString(os_user) \o EncodeInt(nonce) \o EncodeTime(expiration)

\* build_token that encodes a zero where the nonce belongs
build_token_no_nonce(os_user, key, nonce, expiration, bl) ==
    LET msg == bl \o Serialize(os_user, [j \in 1..8 |-> Byte(0)], expiration)
    IN  [ret |-> 0, bl |-> msg \o calc_hmac_sha1(FoldKey(key), msg)]

\* build_token without the fold loop: the key stays as memset left it
build_token_unkeyed(os_user, key, nonce, expiration, bl) ==
    LET msg == bl \o Serialize(os_user, nonce, expiration)
    IN  [ret |-> 0, bl |-> msg \o calc_hmac_sha1(FoldKey(<<>>), msg)]

\* build_token that keys the MAC with the secret itself, not its fold
build_token_raw_key(os_user, key, nonce, expiration, bl) ==
    LET msg == bl \o Serialize(os_user, nonce, expiration)
    IN  [ret |-> 0, bl |-> msg \o calc_hmac_sha1(key, msg)]

build_token(os_user, key, nonce, expiration, bl) ==
    LET msg == bl \o Serialize(os_user, nonce, expiration)
    IN  [ret |-> 0, bl |-> msg \o calc_hmac_sha1(FoldKey(key), msg)]

\* encode_token without "expiration += RGW_SWIFT_TOKEN_EXPIRATION"
encode_token_no_ttl(os_user, key, bl, rnd, now) ==
    IF rnd.ret < 0
    THEN [ret |-> rnd.ret, bl |-> bl, steps |-> <<"random">>]
    ELSE LET expiration == UTime(now.sec, now.nsec)
             r == build_token(Cells(os_user), key, rnd.nonce, expiration, bl)
         IN  [ret |-> r.ret, bl |-> r.bl, steps |-> <<"random", "clock", "build">>]

\* encode_token without the test of get_random_bytes' result: the nonce
\* is whatever the source wrote
encode_token_unchecked(os_user, key, bl, rnd, now) ==
    LET expiration == UTime(now.sec + RGW_SWIFT_TOKEN_EXPIRATION, now.nsec)
        r == build_token(Cells(os_user), key, rnd.nonce, expiration, bl)
    IN  [ret |-> r.ret, bl |-> r.bl, steps |-> <<"random", "clock", "build">>]

\* encode_token that adds the 15 of "15 minutes" as seconds
encode_token_minutes(os_user, key, bl, rnd, now) ==
    IF rnd.ret < 0
    THEN [ret |-> rnd.ret, bl |-> bl, steps |-> <<"random">>]
    ELSE LET expiration == UTime(now.sec + RGW_SWIFT_TOKEN_EXPIRATION \div 60, now.nsec)
             r == build_token(Cells(os_user), key, rnd.nonce, expiration, bl)
         IN  [ret |-> r.ret, bl |-> r.bl, steps |-> <<"random", "clock", "build">>]

\* rnd is what get_random_bytes gives: its result and the nonce it wrote;
\* now is the clock as ceph_clock_now reads it.
encode_token(os_user, key, bl, rnd, now) ==
    IF rnd.ret < 0
    THEN [ret |-> rnd.ret, bl |-> bl, steps |-> <<"random">>]
    ELSE LET expiration == UTime(now.sec + RGW_SWIFT_TOKEN_EXPIRATION, now.nsec)
             r == build_token(Cells(os_user), key, rnd.nonce, expiration, bl)
         IN  [ret |-> r.ret, bl |-> r.bl, steps |-> <<"random", "clock", "build">>]

\* the adapter's header value: "AUTH_rgwtk" followed by buf_to_hex(bl)
StorageToken(bl) == [i \in 1..PrefixLen |-> Chr(PrefixChars[i])] \o buf_to_hex(bl)

----------------------------------------------------------------------------
(* rgw_swift_verify_signed_token.  The result names the return statement  *)
(* taken (site), the steps performed before it, the decoded user and the  *)
(* caller's RGWUserInfo after the call.                                   *)

\* strncmp over 9 characters
HasPrefix_nine(token) ==
    /\ Len(token) >= PrefixLen - 1
    /\ \A i \in 1..(PrefixLen - 1) : token[i] = Chr(PrefixChars[i])

HasPrefix(token) ==
    /\ Len(token) >= PrefixLen
    /\ \A i \in 1..PrefixLen : token[i] = Chr(PrefixChars[i])

Outcome(ret, site, steps, user, info) ==
    [ret |-> ret, site |-> site, steps |-> steps, user |-> user, info |-> info]

DecodePayload(bl) ==
    LET u == DecodeString(bl, 0)
        n == DecodeInt(bl, u.pos, 8)
        e == DecodeTime(bl, n.pos)
    IN  [ok |-> u.ok /\ n.ok /\ e.ok,
         os_user |-> u.val, nonce |-> n.val, expiration |-> e.val]

\* memcmp over the digest size instead of the length of the token
SameBytes_digestsize(a, b) ==
    \A i \in 1..(IF Len(a) < DIGESTSIZE THEN Len(a) ELSE DIGESTSIZE) : a[i] = b[i]

SameBytes(a, b) == \A i \in 1..Len(a) : a[i] = b[i]

\* the comparison without the memcmp: equal lengths are enough
CompareTokens_no_memcmp(bl, p, t, steps, info) ==
    IF t.ret < 0
    THEN Outcome(t.ret, "build", steps, p.os_user, info)
    ELSE IF Len(t.bl) # Len(bl)
    THEN Outcome(-EPERM, "length_mismatch", steps, p.os_user, info)
    ELSE Outcome(0, "ok", steps, p.os_user, info)

\* the comparison without the length check: memcmp over what both hold
CompareTokens_no_length_check(bl, p, t, steps, info) ==
    IF t.ret < 0
    THEN Outcome(t.ret, "build", steps, p.os_user, info)
    ELSE IF ~SameBytes(SubSeq(t.bl, 1, IF Len(bl) < Len(t.bl) THEN Len(bl) ELSE Len(t.bl)),
                       bl)
    THEN Outcome(-EPERM, "mismatch", steps, p.os_user, info)
    ELSE Outcome(0, "ok", steps, p.os_user, info)

\* the comparison of lines 100-117, given the account the lookup found
CompareTokens(bl, p, t, steps, info) ==
    IF t.ret < 0
    THEN Outcome(t.ret, "build", steps, p.os_user, info)
    ELSE IF Len(t.bl) # Len(bl)
    THEN Outcome(-EPERM, "length_mismatch", steps, p.os_user, info)
    ELSE IF ~SameBytes(t.bl, bl)
    THEN Outcome(-EPERM, "mismatch", steps, p.os_user, info)
    ELSE Outcome(0, "ok", steps, p.os_user, info)

\* verification that builds the expected token with an expiration read
\* from the clock instead of the one decoded
VerifyDecoded_regenerate(bl, p, info, env) ==
    IF TimeLess(p.expiration, UTime(env.now.sec, env.now.nsec), env.guess)
    THEN Outcome(-EPERM, "expired", <<"hex", "decode", "clock">>, p.os_user, info)
    ELSE LET l == rgw_get_user_info_by_swift(env.store, env.fault, p.os_user, info)
             steps == <<"hex", "decode", "clock", "lookup">>
         IN  IF l.ret < 0
             THEN Outcome(l.ret, "lookup", steps, p.os_user, l.info)
             ELSE CompareTokens(bl, p,
                      build_token(p.os_user, l.info.swift_key, p.nonce,
                                  UTime(env.now.sec + RGW_SWIFT_TOKEN_EXPIRATION,
                                        env.now.nsec), <<>>),
                      steps \o <<"build">>, l.info)

\* verification that answers a failed lookup with -EPERM
VerifyDecoded_fold_lookup(bl, p, info, env) ==
    IF TimeLess(p.expiration, UTime(env.now.sec, env.now.nsec), env.guess)
    THEN Outcome(-EPERM, "expired", <<"hex", "decode", "clock">>, p.os_user, info)
    ELSE LET l == rgw_get_user_info_by_swift(env.store, env.fault, p.os_user, info)
             steps == <<"hex", "decode", "clock", "lookup">>
         IN  IF l.ret < 0
             THEN Outcome(-EPERM, "lookup", steps, p.os_user, l.info)
             ELSE CompareTokens(bl, p,
                      build_token(p.os_user, l.info.swift_key, p.nonce,
                                  p.expiration, <<>>),
                      steps \o <<"build">>, l.info)

\* verification that looks the user up before it checks the expiration
VerifyDecoded_lookup_first(bl, p, info, env) ==
    LET l == rgw_get_user_info_by_swift(env.store, env.fault, p.os_user, info)
        steps == <<"hex", "decode", "lookup">>
    IN  IF l.ret < 0
        THEN Outcome(l.ret, "lookup", steps, p.os_user, l.info)
        ELSE IF TimeLess(p.expiration, UTime(env.now.sec, env.now.nsec), env.guess)
        THEN Outcome(-EPERM, "expired", steps \o <<"clock">>, p.os_user, l.info)
        ELSE CompareTokens(bl, p,
                 build_token(p.os_user, l.info.swift_key, p.nonce, p.expiration, <<>>),
                 steps \o <<"clock", "build">>, l.info)

\* verification that takes a token for expired from the instant of its
\* expiration on: "expiration <= now" for "expiration < now"
VerifyDecoded_at_expiration(bl, p, info, env) ==
    IF ~TimeLess(UTime(env.now.sec, env.now.nsec), p.expiration, ~env.guess)
    THEN Outcome(-EPERM, "expired", <<"hex", "decode", "clock">>, p.os_user, info)
    ELSE LET l == rgw_get_user_info_by_swift(env.store, env.fault, p.os_user, info)
             steps == <<"hex", "decode", "clock", "lookup">>
         IN  IF l.ret < 0
             THEN Outcome(l.ret, "lookup", steps, p.os_user, l.info)
             ELSE CompareTokens(bl, p,
                      build_token(p.os_user, l.info.swift_key, p.nonce,
                                  p.expiration, <<>>),
                      steps \o <<"build">>, l.info)

\* verification that compares the two fields of the expiration with those
\* of the clock one by one: expired when both are smaller
VerifyDecoded_fieldwise(bl, p, info, env) ==
    IF /\ AllBytes(p.expiration.sec) /\ AllBytes(p.expiration.nsec)
       /\ DigitsLess(p.expiration.sec, U32(env.now.sec), 1)
       /\ DigitsLess(p.expiration.nsec, U32(env.now.nsec), 1)
    THEN Outcome(-EPERM, "expired", <<"hex", "decode", "clock">>, p.os_user, info)
    ELSE LET l == rgw_get_user_info_by_swift(env.store, env.fault, p.os_user, info)
             steps == <<"hex", "decode", "clock", "lookup">>
         IN  IF l.ret < 0
             THEN Outcome(l.ret, "lookup", steps, p.os_user, l.info)
             ELSE CompareTokens(bl, p,
                      build_token(p.os_user, l.info.swift_key, p.nonce,
                                  p.expiration, <<>>),
                      steps \o <<"build">>, l.info)

\* verification that looks the account up into the caller's record before
\* it tests the expiration
VerifyDecoded_info_first(bl, p, info, env) ==
    LET l == rgw_get_user_info_by_swift(env.store, env.fault, p.os_user, info)
        steps == <<"hex", "decode", "clock", "lookup">>
    IN  IF TimeLess(p.expiration, UTime(env.now.sec, env.now.nsec), env.guess)
        THEN Outcome(-EPERM, "expired", <<"hex", "decode", "clock">>, p.os_user,
                     l.info)
        ELSE IF l.ret < 0
        THEN Outcome(l.ret, "lookup", steps, p.os_user, l.info)
        ELSE CompareTokens(bl, p,
                 build_token(p.os_user, l.info.swift_key, p.nonce,
                             p.expiration, <<>>),
                 steps \o <<"build">>, l.info)

VerifyDecoded(bl, p, info, env) ==
    IF TimeLess(p.expiration, UTime(env.now.sec, env.now.nsec), env.guess)
    THEN Outcome(-EPERM, "expired", <<"hex", "decode", "clock">>, p.os_user, info)
    ELSE LET l == rgw_get_user_info_by_swift(env.store, env.fault, p.os_user, info)
             steps == <<"hex", "decode", "clock", "lookup">>
         IN  IF l.ret < 0
             THEN Outcome(l.ret, "lookup", steps, p.os_user, l.info)
             ELSE CompareTokens(bl, p,
                      build_token(p.os_user, l.info.swift_key, p.nonce,
                                  p.expiration, <<>>),
                      steps \o <<"build">>, l.info)

\* verification without the test of hex_to_buf's result
rgw_swift_verify_signed_token_hex_unchecked(token, info, env) ==
    IF ~HasPrefix(token)
    THEN Outcome(-EINVAL, "prefix", <<>>, <<>>, info)
    ELSE LET body == SubSeq(token, PrefixLen + 1, Len(token))
         IN  IF Len(body) % 2 = 1
             THEN Outcome(-EINVAL, "length", <<>>, <<>>, info)
             ELSE LET h == hex_to_buf(body)
                      p == DecodePayload(h.buf)
                  IN  IF ~p.ok
                      THEN Outcome(-EINVAL, "decode", <<"hex", "decode">>, <<>>, info)
                      ELSE VerifyDecoded(h.buf, p, info, env)

\* verification without the test of "len & 1"
rgw_swift_verify_signed_token_no_parity(token, info, env) ==
    IF ~HasPrefix(token)
    THEN Outcome(-EINVAL, "prefix", <<>>, <<>>, info)
    ELSE LET body == SubSeq(token, PrefixLen + 1, Len(token))
             h == hex_to_buf(body)
         IN  IF h.ret < 0
             THEN Outcome(h.ret, "hex", <<"hex">>, <<>>, info)
             ELSE LET p == DecodePayload(h.buf)
                  IN  IF ~p.ok
                      THEN Outcome(-EINVAL, "decode", <<"hex", "decode">>, <<>>, info)
                      ELSE VerifyDecoded(h.buf, p, info, env)

\* verification that tests the parity of the length before the prefix
rgw_swift_verify_signed_token_length_first(token, info, env) ==
    IF Len(SubSeq(token, PrefixLen + 1, Len(token))) % 2 = 1
    THEN Outcome(-EINVAL, "length", <<>>, <<>>, info)
    ELSE IF ~HasPrefix(token)
    THEN Outcome(-EINVAL, "prefix", <<>>, <<>>, info)
    ELSE LET h == hex_to_buf(SubSeq(token, PrefixLen + 1, Len(token)))
         IN  IF h.ret < 0
             THEN Outcome(h.ret, "hex", <<"hex">>, <<>>, info)
             ELSE LET p == DecodePayload(h.buf)
                  IN  IF ~p.ok
                      THEN Outcome(-EINVAL, "decode", <<"hex", "decode">>,
                                   <<>>, info)
                      ELSE VerifyDecoded(h.buf, p, info, env)

rgw_swift_verify_signed_token(token, info, env) ==
    IF ~HasPrefix(token)
    THEN Outcome(-EINVAL, "prefix", <<>>, <<>>, info)
    ELSE LET body == SubSeq(token, PrefixLen + 1, Len(token))
         IN  IF Len(body) % 2 = 1
             THEN Outcome(-EINVAL, "length", <<>>, <<>>, info)
             ELSE LET h == hex_to_buf(body)
                  IN  IF h.ret < 0
                      THEN Outcome(h.ret, "hex", <<"hex">>, <<>>, info)
                      ELSE LET p == DecodePayload(h.buf)
                           IN  IF ~p.ok
                               THEN Outcome(-EINVAL, "decode", <<"hex", "decode">>,
                                            <<>>, info)
                               ELSE VerifyDecoded(h.buf, p, info, env)

----------------------------------------------------------------------------
(* The environment: users, secrets, clock values, nonces *)

\* the clock is read at second 0 and up to MaxSlack seconds past the token
\* lifetime
MaxSlack == 1

\* the random source gives one of MaxNonce nonces
MaxNonce == 1

\* characters appended to a token by a client: 1..MaxPad
MaxPad == 3

\* a tampering client moves a hex digit by one of these amounts
TamperShifts == {1, 8, 15}

Users == {<<97>>, <<98>>}

\* the accounts whose secret is changed or which are removed while tokens
\* are out; the others keep the secret they start with
Rekeyed == {<<97>>}

\* A secret longer than the digest: its last byte is folded onto the first.
LongSecret(c) ==
    [i \in 1..(DIGESTSIZE + 1) |->
        IF i = 1 THEN 99 ELSE IF i = DIGESTSIZE + 1 THEN c ELSE 120]

Secrets == {<<115>>, LongSecret(97), LongSecret(98)}

ClockSecs ==
    {0} \cup (RGW_SWIFT_TOKEN_EXPIRATION..(RGW_SWIFT_TOKEN_EXPIRATION + MaxSlack))

\* sub-second fractions (nanoseconds) the clock shows
ClockNsecs == {0, 1}

ClockValues == [sec : ClockSecs, nsec : ClockNsecs]

ClockBefore(a, b) == a.sec < b.sec \/ (a.sec = b.sec /\ a.nsec < b.nsec)

NonceOf(i) == [j \in 1..8 |-> Byte((16 * j + i) % 256)]

RandomResults ==
    {[ret |-> 0, nonce |-> NonceOf(i)] : i \in 1..MaxNonce}
    \cup {[ret |-> -EIO, nonce |-> <<>>]}

StoreFaults == {0, -EIO}

----------------------------------------------------------------------------
(* What a client presents: the token it holds, or a string made from it *)

Body(token) == SubSeq(token, PrefixLen + 1, Len(token))

ShiftChar(c, r) ==
    IF c[1] = "c" THEN Chr(HexChars[((HexVal(c[2]) + r) % 16) + 1])
    ELSE <<"h", c[2], c[3], (c[4] + r) % 16, c[5], c[6]>>

\* the token with the hex digit at position pos of its body replaced by
\* the digit r places further on (mod 16)
TamperAt(token, pos, r) ==
    [token EXCEPT ![PrefixLen + pos] = ShiftChar(token[PrefixLen + pos], r)]

How(kind, a, b) == [kind |-> kind, a |-> a, b |-> b]

Present(w, how) ==
    CASE how.kind = "asis" -> w
      [] how.kind = "tamper" -> TamperAt(w, how.a, how.b)
      [] how.kind = "cut" -> SubSeq(w, 1, Len(w) - how.a)
      [] how.kind = "pad" -> w \o [i \in 1..how.a |-> Chr("0")]
      [] how.kind = "nonhex" -> [w EXCEPT ![PrefixLen + how.a] = Chr("g")]
      [] how.kind = "noprefix" ->
            IF how.a = 0 THEN Body(w)
            ELSE IF how.a < 0 THEN SubSeq(w, 1, PrefixLen + how.a)
            ELSE [w EXCEPT ![how.a] = Chr("x")]
      [] how.kind = "forge" ->
            StorageToken(Serialize(Cells(how.a), NonceOf(1), UTime(how.b, 0))
                         \o [j \in 1..DIGESTSIZE |-> Byte(0)])

\* a user name no store of the model knows
Stranger == <<122>>

Cuts(w) == {1, 2, 2 * DIGESTSIZE, 2 * DIGESTSIZE + 2, Len(Body(w))}

\* presentations that need no token
Forgeries ==
    {How("forge", u, t) : u \in Users \cup {Stranger},
                          t \in {0, 2 * RGW_SWIFT_TOKEN_EXPIRATION}}

\* presentations of the held token w, changed or not
Variants(w) ==
    {How("asis", 0, 0)}
    \cup {How("cut", n, 0) : n \in Cuts(w)}
    \cup {How("pad", n, 0) : n \in 1..MaxPad}
    \cup {How("nonhex", i, 0) : i \in {1, Len(Body(w))}}
    \cup {How("noprefix", i, 0) : i \in {-1, 0, 1, PrefixLen}}

Tampers(w) ==
    {How("tamper", i, r) : i \in 1..Len(Body(w)), r \in TamperShifts}

----------------------------------------------------------------------------
(* State *)

VARIABLES
    now,     \* the clock: [sec, nsec]
    store,   \* the account store: user name -> secret, for the users it knows
    wire,    \* the token string the client holds, <<>> before the first one
    mint,    \* what wire was made from: [user, key, t0, nonce]
    last     \* the last call: its operation, inputs and result

vars == <<now, store, wire, mint, last>>

NoMint == [user |-> <<>>, key |-> <<>>, t0 |-> [sec |-> 0, nsec |-> 0], nonce |-> <<>>]

NoCall == [op |-> "none"]

Init ==
    /\ now = [sec |-> 0, nsec |-> 0]
    /\ store \in {[u \in Users |-> IF u \in Rekeyed THEN s ELSE <<115>>] : s \in Secrets}
    /\ wire = <<>>
    /\ mint = NoMint
    /\ last = NoCall

Idle == last.op = "none"

\* the clock moves on
Tick(t) ==
    /\ Idle
    /\ ClockBefore(now, t)
    /\ now' = t
    /\ UNCHANGED <<store, wire, mint, last>>

\* account provisioning: a user is added or its secret replaced
SetKey(u, s) ==
    /\ Idle
    /\ IF u \in DOMAIN store THEN store[u] # s ELSE TRUE
    /\ store' = [v \in DOMAIN store \cup {u} |-> IF v = u THEN s ELSE store[v]]
    /\ UNCHANGED <<now, wire, mint, last>>

RemoveUser(u) ==
    /\ Idle
    /\ u \in DOMAIN store
    /\ store' = [v \in DOMAIN store \ {u} |-> store[v]]
    /\ UNCHANGED <<now, wire, mint, last>>

\* encode_token for an account of the store, and the header made of it
Encode(u, rnd) ==
    /\ Idle
    /\ u \in DOMAIN store
    /\ LET r == encode_token(u, store[u], <<>>, rnd, now)
       IN  /\ last' = [op |-> "encode", rnd |-> rnd, out |-> r]
           /\ IF r.ret < 0
              THEN UNCHANGED <<wire, mint>>
              ELSE /\ wire' = StorageToken(r.bl)
                   /\ mint' = [user |-> u, key |-> store[u], t0 |-> now,
                               nonce |-> rnd.nonce]
    /\ UNCHANGED <<now, store>>

\* rgw_swift_verify_signed_token on what the client presents
Verify(how, fault, guess) ==
    LET token == Present(wire, how)
        env == [now |-> now, store |-> store, fault |-> fault, guess |-> guess]
    IN  /\ Idle
        /\ last' = [op |-> "verify", how |-> how, token |-> token, env |-> env,
                    out |-> rgw_swift_verify_signed_token(token, NoInfo, env)]
        /\ UNCHANGED <<now, store, wire, mint>>

VerifyHeld ==
    /\ wire # <<>>
    /\ \/ \E how \in Variants(wire) : Verify(how, 0, FALSE)
       \/ \E fault \in StoreFaults \ {0} : Verify(How("asis", 0, 0), fault, FALSE)

VerifyForged ==
    \E how \in Forgeries : Verify(how, 0, FALSE)

\* A changed length lets the expiration be read out of digest bytes, whose
\* value is not known: both orders against the clock are tried.
VerifyTampered ==
    /\ wire # <<>>
    /\ \E how \in Tampers(wire) :
          \/ Verify(how, 0, FALSE)
          \/ how.a <= 8 /\ Verify(how, 0, TRUE)

\* the caller has its result
Return ==
    /\ ~Idle
    /\ last' = NoCall
    /\ UNCHANGED <<now, store, wire, mint>>

Next ==
    \/ \E t \in ClockValues : Tick(t)
    \/ \E u \in Rekeyed, s \in Secrets : SetKey(u, s)
    \/ \E u \in Rekeyed : RemoveUser(u)
    \/ \E u \in Users, rnd \in RandomResults : Encode(u, rnd)
    \/ VerifyHeld
    \/ VerifyForged
    \/ Return

Spec == Init /\ [][Next]_vars

\* a token is only tampered with while the accounts stay as they are
NextTamper ==
    \/ \E t \in ClockValues : Tick(t)
    \/ \E u \in Users, rnd \in RandomResults : Encode(u, rnd)
    \/ VerifyTampered
    \/ Return

InitTamper ==
    /\ Init
    /\ store[<<97>>] = LongSecret(97)

SpecTamper == InitTamper /\ [][NextTamper]_vars

----------------------------------------------------------------------------
(* Properties *)

Verified == last.op = "verify"

\* the expiration of a token made at t0
Expiry(t0) == [sec |-> t0.sec + RGW_SWIFT_TOKEN_EXPIRATION, nsec |-> t0.nsec]

\* the store still maps the user of the held token to the secret it was
\* made with, and answers
KeyCurrent ==
    /\ Verified
    /\ last.env.fault = 0
    /\ mint.user \in DOMAIN store
    /\ store[mint.user] = mint.key

\* C1: round trip.  A token made by encode_token for (username, secret) at
\* T0 and presented unchanged at T0 + d, 0 <= d < TTL, while the store maps
\* the user to that secret, is accepted, and the account returned is that
\* user's.
C1_RoundTrip ==
    (/\ Verified
     /\ last.how.kind = "asis"
     /\ KeyCurrent
     /\ ClockBefore(now, Expiry(mint.t0)))
    => /\ last.out.ret = 0
       /\ last.out.info = [swift_name |-> mint.user, swift_key |-> mint.key]

C1_Witness ==
    /\ Verified
    /\ last.how.kind = "asis"
    /\ KeyCurrent
    /\ ClockBefore(mint.t0, now)
    /\ ClockBefore(now, Expiry(mint.t0))
    /\ now.sec = RGW_SWIFT_TOKEN_EXPIRATION
    /\ last.out.ret = 0

\* C2, as claimed: a token made with secretA is rejected whenever the store
\* holds a different secretB for the user.
C2_AnyOtherSecretRejected ==
    (/\ Verified
     /\ last.how.kind = "asis"
     /\ last.env.fault = 0
     /\ mint.user \in DOMAIN store
     /\ store[mint.user] # mint.key)
    => last.out.ret # 0

\* the OR fold of a secret, stated byte by byte: bit b of key byte j is set
\* exactly when some secret byte at a position congruent to j has it set
BitSet(n, b) == (n \div (2 ^ b)) % 2 = 1

FoldsAlike(s1, s2) ==
    \A j \in 1..DIGESTSIZE, b \in 0..7 :
        (\E i \in 1..Len(s1) : (i - j) % DIGESTSIZE = 0 /\ BitSet(s1[i], b))
        <=> (\E i \in 1..Len(s2) : (i - j) % DIGESTSIZE = 0 /\ BitSet(s2[i], b))

\* C2, amended: a token made with secretA is rejected whenever the store
\* holds a secretB for the user whose OR-folded key differs from secretA's.
C2_OtherFoldRejected ==
    (/\ Verified
     /\ last.how.kind = "asis"
     /\ last.env.fault = 0
     /\ mint.user \in DOMAIN store
     /\ ~FoldsAlike(store[mint.user], mint.key))
    => last.out.ret # 0

C2_Witness ==
    /\ Verified
    /\ last.how.kind = "asis"
    /\ mint.user \in DOMAIN store
    /\ ~FoldsAlike(store[mint.user], mint.key)
    /\ Len(store[mint.user]) > DIGESTSIZE
    /\ ClockBefore(now, Expiry(mint.t0))
    /\ last.out.site = "mismatch"

\* the conditions of acceptance, stated on the token, the clock and the store
Accepted(token, env) ==
    /\ Len(token) >= PrefixLen
    /\ SubSeq(token, 1, PrefixLen) = [i \in 1..PrefixLen |-> Chr(PrefixChars[i])]
    /\ Len(Body(token)) % 2 = 0
    /\ hex_to_buf(Body(token)).ret >= 0
    /\ LET B == hex_to_buf(Body(token)).buf
           p == DecodePayload(B)
       IN  /\ p.ok
           /\ ~TimeLess(p.expiration, UTime(env.now.sec, env.now.nsec), env.guess)
           /\ env.fault = 0
           /\ AllBytes(p.os_user)
           /\ Plain(p.os_user) \in DOMAIN env.store
           /\ LET S == env.store[Plain(p.os_user)]
                  ser == Serialize(p.os_user, p.nonce, p.expiration)
              IN  B = ser \o calc_hmac_sha1(FoldKey(S), ser)

\* C3: verification succeeds if and only if the string has the prefix and
\* decodes to bytes B, B decodes to a payload (username, nonce, expiration),
\* expiration >= now, the lookup of username succeeds with secret S, and B is
\* the serialization of that payload followed by MAC(fold(S), serialization):
\* the nonce and the expiration of the recomputation are the decoded ones.
C3_AcceptedIff ==
    Verified => (last.out.ret = 0 <=> Accepted(last.token, last.env))

C3_Witness ==
    /\ Verified
    /\ last.out.ret = 0
    /\ Accepted(last.token, last.env)
    /\ Len(mint.key) > DIGESTSIZE
    /\ mint.t0.nsec = 1
    /\ ClockBefore(mint.t0, now)

\* presentations that leave the payload of the held token in place
PayloadKept ==
    \/ last.how.kind = "asis"
    \/ last.how.kind = "pad" /\ last.how.a % 2 = 0
    \/ last.how.kind = "cut" /\ last.how.a \in {2, 2 * DIGESTSIZE}

\* the expiration carried by what was presented is earlier than the clock
PresentedExpired ==
    \/ PayloadKept /\ ClockBefore(Expiry(mint.t0), now)
    \/ last.how.kind = "forge" /\ ClockBefore([sec |-> last.how.b, nsec |-> 0], now)

\* C4: a well-formed token whose embedded expiration is earlier than the
\* clock is rejected as expired (-EPERM at the expiration check), whatever
\* its MAC and whether or not its user exists, and the account store is not
\* consulted.
C4_ExpiredBeforeLookup ==
    (Verified /\ PresentedExpired)
    => /\ last.out.site = "expired"
       /\ last.out.ret = -EPERM
       /\ \A i \in 1..Len(last.out.steps) : last.out.steps[i] # "lookup"
       /\ last.out.info = NoInfo

C4_Witness ==
    /\ Verified
    /\ last.how.kind = "asis"
    /\ mint.user \notin DOMAIN store
    /\ now.sec = mint.t0.sec + RGW_SWIFT_TOKEN_EXPIRATION + 1
    /\ last.out.site = "expired"

\* C5: tamper sensitivity.  A valid, unexpired token in which one hex
\* character of the body (in the user name, its length, the nonce, the
\* expiration or the MAC) is replaced by a different hex character is
\* rejected; the MAC is collision-free.
C5_TamperedRejected ==
    (/\ Verified
     /\ last.how.kind = "tamper"
     /\ KeyCurrent
     /\ ~ClockBefore(Expiry(mint.t0), now))
    => last.out.ret # 0

\* a tampered user name that names another account of the store
C5_Witness ==
    /\ Verified
    /\ last.how.kind = "tamper"
    /\ KeyCurrent
    /\ ~ClockBefore(Expiry(mint.t0), now)
    /\ last.token # wire
    /\ last.out.site = "mismatch"
    /\ AllBytes(last.out.user)
    /\ Plain(last.out.user) # mint.user

\* what was presented fails a format check: no prefix, an odd number of
\* characters after it, a character that is no hex digit, or bytes that
\* end before the payload does
FormatFailure ==
    \/ last.how.kind = "noprefix"
    \/ last.how.kind = "nonhex"
    \/ last.how.kind = "pad" /\ last.how.a % 2 = 1
    \/ last.how.kind = "cut" /\ (last.how.a % 2 = 1 \/ last.how.a > 2 * DIGESTSIZE)

\* a well-formed, unexpired token whose user the store does not know
UnknownUserCase ==
    /\ last.env.fault = 0
    /\ \/ /\ PayloadKept
          /\ ~ClockBefore(Expiry(mint.t0), now)
          /\ mint.user \notin DOMAIN store
       \/ /\ last.how.kind = "forge"
          /\ ~ClockBefore([sec |-> last.how.b, nsec |-> 0], now)
          /\ last.how.a \notin DOMAIN store

\* a well-formed, unexpired token presented while the store fails
StoreFaultCase ==
    /\ last.env.fault # 0
    /\ PayloadKept
    /\ ~ClockBefore(Expiry(mint.t0), now)

\* an unexpired token of a known user with a MAC that is not the user's
WrongMacCase ==
    /\ last.env.fault = 0
    /\ \/ /\ last.how.kind = "asis"
          /\ ~ClockBefore(Expiry(mint.t0), now)
          /\ mint.user \in DOMAIN store
          /\ ~FoldsAlike(store[mint.user], mint.key)
       \/ /\ last.how.kind = "forge"
          /\ ~ClockBefore([sec |-> last.how.b, nsec |-> 0], now)
          /\ last.how.a \in DOMAIN store

\* C6, as claimed: every failing verification gives one and the same
\* result, that of a string without the prefix.
C6_OneFailureResult ==
    (Verified /\ last.out.ret # 0)
    => last.out.ret = rgw_swift_verify_signed_token(<<>>, NoInfo, last.env).ret

\* C6, amended: every failing verification gives a negative result, whose
\* value depends on the check: -EINVAL for a format failure, -EPERM for an
\* expired token and for a wrong MAC, the error of the store for a failed
\* lookup.
C6_FailureCodes ==
    Verified
    => /\ last.out.ret <= 0
       /\ FormatFailure => last.out.ret = -EINVAL
       /\ PresentedExpired => last.out.ret = -EPERM
       /\ WrongMacCase => last.out.ret = -EPERM
       /\ UnknownUserCase => last.out.ret = -ENOENT
       /\ StoreFaultCase => last.out.ret = last.env.fault

C6_Witness ==
    /\ Verified
    /\ WrongMacCase
    /\ last.how.kind = "asis"
    /\ last.out.ret = -EPERM
    /\ last.out.ret # rgw_swift_verify_signed_token(<<>>, NoInfo, last.env).ret

\* the result for a well-formed, unexpired token of the known user u that
\* carries a wrong MAC, at the clock and store of the last call
WrongMacResult(u) ==
    rgw_swift_verify_signed_token(
        Present(wire, How("forge", u, 2 * RGW_SWIFT_TOKEN_EXPIRATION)), NoInfo,
        [last.env EXCEPT !.fault = 0])

\* C7, as claimed: a well-formed, unexpired token of an unknown user (or one
\* presented while the store fails) gets the same result as one of a known
\* user with a wrong MAC.
C7_NoEnumerationOracle ==
    (Verified /\ (UnknownUserCase \/ StoreFaultCase))
    => \A u \in DOMAIN store : last.out.ret = WrongMacResult(u).ret

\* C7, amended: both tokens are rejected with a negative result, the first
\* with the error of the store, the second with -EPERM.
C7_BothRejected ==
    (Verified /\ (UnknownUserCase \/ StoreFaultCase))
    => /\ last.out.ret < 0
       /\ last.out.ret = (IF last.env.fault # 0 THEN last.env.fault ELSE -ENOENT)
       /\ \A u \in DOMAIN store : WrongMacResult(u).ret = -EPERM

C7_Witness ==
    /\ Verified
    /\ UnknownUserCase
    /\ last.how.kind = "forge"
    /\ DOMAIN store # {}
    /\ last.out.ret = -ENOENT
    /\ \A u \in DOMAIN store : WrongMacResult(u).site = "mismatch"

\* the string does not start with "AUTH_rgwtk"
LacksPrefix(token) ==
    \/ Len(token) < PrefixLen
    \/ \E i \in 1..PrefixLen : token[i] # Chr(PrefixChars[i])

\* C8: a string that does not start with the prefix is rejected with
\* -EINVAL at the prefix test; nothing is hex-decoded or decoded, the clock
\* is not read and no account is looked up.
C8_PrefixEnforced ==
    (Verified /\ LacksPrefix(last.token))
    => /\ last.out.site = "prefix"
       /\ last.out.ret = -EINVAL
       /\ last.out.steps = <<>>
       /\ last.out.info = NoInfo

C8_Witness ==
    /\ Verified
    /\ last.how.kind = "noprefix"
    /\ last.how.a = PrefixLen
    /\ LacksPrefix(last.token)
    /\ last.out.site = "prefix"

\* C9: a prefixed token with an odd number of characters after the prefix
\* is rejected with -EINVAL before anything is hex-decoded or decoded.
C9_OddLengthRejected ==
    (/\ Verified
     /\ ~LacksPrefix(last.token)
     /\ (Len(last.token) - PrefixLen) % 2 = 1)
    => /\ last.out.site = "length"
       /\ last.out.ret = -EINVAL
       /\ last.out.steps = <<>>

C9_Witness ==
    /\ Verified
    /\ last.how.kind = "cut"
    /\ last.how.a = 1
    /\ (Len(last.token) - PrefixLen) % 2 = 1
    /\ last.out.site = "length"

\* the bytes of a valid token cut short or followed by more bytes
MalformedBody ==
    \/ last.how.kind = "cut" /\ last.how.a % 2 = 0 /\ last.how.a > 0
    \/ last.how.kind = "pad" /\ last.how.a % 2 = 0

\* C10, as claimed: a truncated or over-long buffer gives the format error.
C10_MalformedIsInvalidFormat ==
    (Verified /\ MalformedBody)
    => last.out.ret = -EINVAL /\ last.out.site = "decode"

\* C10, amended: a buffer that ends before the payload does gives -EINVAL
\* at the decoding; one whose payload is complete but is followed by fewer
\* or more bytes than a digest is rejected as well, after the expiration
\* check and the lookup: with their error when they fail, with -EPERM at the
\* comparison of the lengths otherwise.
C10_MalformedRejected ==
    (Verified /\ MalformedBody)
    => /\ last.out.ret < 0
       /\ IF last.how.kind = "cut" /\ last.how.a > 2 * DIGESTSIZE
          THEN last.out.site = "decode" /\ last.out.ret = -EINVAL
          ELSE IF ClockBefore(Expiry(mint.t0), now)
          THEN last.out.site = "expired" /\ last.out.ret = -EPERM
          ELSE IF mint.user \notin DOMAIN store
          THEN last.out.site = "lookup" /\ last.out.ret = -ENOENT
          ELSE last.out.site = "length_mismatch" /\ last.out.ret = -EPERM

C10_Witness ==
    /\ Verified
    /\ last.how.kind = "pad"
    /\ last.how.a = 2
    /\ KeyCurrent
    /\ ~ClockBefore(Expiry(mint.t0), now)
    /\ last.out.site = "length_mismatch"

----------------------------------------------------------------------------
(* Replay: the client presents the token it holds again and again *)

\* presentations of one token by one client
MaxReplay == 3

\* encode_token calls between two presentations
MaxEncodes == 1

ReplayHows == {How("asis", 0, 0), How("pad", 2, 0)}

\* how often the held token has been presented since the caller was idle
Seen == IF Verified /\ "seen" \in DOMAIN last THEN last.seen ELSE 0

EncodesBetween == IF Verified /\ "encodes" \in DOMAIN last THEN last.encodes ELSE 0

\* a verifier that remembers the tokens it accepted and accepts each once
Replay_once(how, t) ==
    LET token == Present(wire, how)
        env == [now |-> t, store |-> store, fault |-> 0, guess |-> FALSE]
        before == IF Verified THEN last.out.info ELSE NoInfo
        used == Verified /\ last.accepted > 0
        out == IF used THEN Outcome(-EPERM, "used", <<>>, <<>>, before)
               ELSE rgw_swift_verify_signed_token(token, before, env)
    IN  /\ wire # <<>>
        /\ Idle \/ Verified
        /\ Seen < MaxReplay
        /\ ~ClockBefore(t, now)
        /\ now' = t
        /\ last' = [op |-> "verify", how |-> how, token |-> token, env |-> env,
                    out |-> out,
                    seen |-> Seen + 1,
                    accepted |-> (IF Verified THEN last.accepted ELSE 0)
                                 + (IF out.ret = 0 THEN 1 ELSE 0),
                    encodes |-> EncodesBetween,
                    prev |-> IF Verified
                             THEN <<[token |-> last.token, env |-> last.env,
                                     ret |-> last.out.ret, site |-> last.out.site]>>
                             ELSE <<>>]
        /\ UNCHANGED <<store, wire, mint>>

\* rgw_swift_verify_signed_token at time t >= now on what the client
\* presents, with the RGWUserInfo object of the call before
Replay(how, t) ==
    LET token == Present(wire, how)
        env == [now |-> t, store |-> store, fault |-> 0, guess |-> FALSE]
        before == IF Verified THEN last.out.info ELSE NoInfo
        out == rgw_swift_verify_signed_token(token, before, env)
    IN  /\ wire # <<>>
        /\ Idle \/ Verified
        /\ Seen < MaxReplay
        /\ ~ClockBefore(t, now)
        /\ now' = t
        /\ last' = [op |-> "verify", how |-> how, token |-> token, env |-> env,
                    out |-> out,
                    seen |-> Seen + 1,
                    accepted |-> (IF Verified THEN last.accepted ELSE 0)
                                 + (IF out.ret = 0 THEN 1 ELSE 0),
                    encodes |-> EncodesBetween,
                    prev |-> IF Verified
                             THEN <<[token |-> last.token, env |-> last.env,
                                     ret |-> last.out.ret, site |-> last.out.site]>>
                             ELSE <<>>]
        /\ UNCHANGED <<store, wire, mint>>

\* encode_token for some account between two presentations; its token goes
\* to another client
EncodeBetween(u, rnd) ==
    /\ Verified
    /\ "seen" \in DOMAIN last
    /\ last.encodes < MaxEncodes
    /\ u \in DOMAIN store
    /\ last' = [last EXCEPT !.encodes = @ + 1]
    /\ encode_token(u, store[u], <<>>, rnd, now).ret \in {0, -EIO}
    /\ UNCHANGED <<now, store, wire, mint>>

\* the clock values of the later presentations: the last instant of the
\* TTL window of a token made at 0, and the first one after it
ReplayClock == {[sec |-> RGW_SWIFT_TOKEN_EXPIRATION, nsec |-> 0],
                [sec |-> RGW_SWIFT_TOKEN_EXPIRATION, nsec |-> 1]}

NextReplay ==
    \/ \E u \in Rekeyed, rnd \in RandomResults : Encode(u, rnd)
    \/ \E how \in ReplayHows, t \in {now} \cup ReplayClock : Replay(how, t)
    \/ \E u \in Users, rnd \in RandomResults : EncodeBetween(u, rnd)
    \/ Return

SpecReplay == InitTamper /\ [][NextReplay]_vars

\* C11: statelessness and replay.  A valid token presented again within its
\* TTL window is accepted every time, whatever was encoded or verified
\* before; and a presentation of the same string at the same clock and
\* store as the one before gets the same result.
C11_ReplayAccepted ==
    (Verified /\ "seen" \in DOMAIN last)
    => /\ (/\ last.how.kind = "asis"
           /\ KeyCurrent
           /\ ClockBefore(now, Expiry(mint.t0)))
          => last.out.ret = 0
       /\ \A i \in 1..Len(last.prev) :
             (last.prev[i].token = last.token /\ last.prev[i].env = last.env)
             => (last.out.ret = last.prev[i].ret /\ last.out.site = last.prev[i].site)

C11_Witness ==
    /\ Verified
    /\ "seen" \in DOMAIN last
    /\ last.how.kind = "asis"
    /\ last.seen = MaxReplay
    /\ last.accepted = MaxReplay
    /\ last.encodes > 0
    /\ ClockBefore(mint.t0, now)
    /\ last.prev[1].env # last.env

----------------------------------------------------------------------------
(* Concurrent calls: encode_token and rgw_swift_verify_signed_token run   *)
(* as threads that take the steps of the code one at a time, while the    *)
(* clock moves and the accounts change.  last holds the frames of the     *)
(* calls in flight: each thread's position, its local variables and the   *)
(* responses it got from the random source, the clock and the store.      *)

MaxThreads == 2

Threads == 1..MaxThreads

JobKinds == {"encode", "verify"}

Threaded == last.op = "threads"

NoStore == <<>>

\* the frame of a call that has not taken a step
Frame(job) ==
    [job |-> job, pc |-> "start",
     rnd |-> [ret |-> 0, nonce |-> <<>>],
     clk |-> [sec |-> 0, nsec |-> 0],
     expiration |-> UTime(0, 0),
     snap |-> NoStore,
     info |-> NoInfo,
     out |-> [ret |-> 0]]

\* the calls in flight after thread t took a step that leaves its frame
\* as f; mixed tells that a step was taken while another call was under way
Stepped(t, f) ==
    [last EXCEPT
        !.th = [x \in Threads |-> IF x = t THEN f ELSE last.th[x]],
        !.mixed = @ \/ \E x \in Threads \ {t} : last.th[x].pc \notin {"start", "done"}]

\* the callers of the threads: the adapter passes each encode_token the
\* account it looked up, and each verification the token of the client
Fork(jobs) ==
    /\ Idle
    /\ wire # <<>>
    /\ mint.user \in DOMAIN store
    /\ \A t \in Threads \ {1} : jobs[t - 1] = "encode" \/ jobs[t] = "verify"
    /\ last' = [op |-> "threads", mixed |-> FALSE,
                user |-> mint.user, key |-> store[mint.user], token |-> wire,
                th |-> [t \in Threads |-> Frame(jobs[t])]]
    /\ UNCHANGED <<now, store, wire, mint>>

\* lines 43-45
EncRandom(t, rnd) ==
    /\ Threaded
    /\ last.th[t].job = "encode" /\ last.th[t].pc = "start"
    /\ last' = Stepped(t,
           IF rnd.ret < 0
           THEN [last.th[t] EXCEPT !.rnd = rnd, !.pc = "done",
                     !.out = [ret |-> rnd.ret, bl |-> <<>>, steps |-> <<"random">>]]
           ELSE [last.th[t] EXCEPT !.rnd = rnd, !.pc = "clock"])
    /\ UNCHANGED <<now, store, wire, mint>>

\* lines 47-48 with "expiration" a static variable: every call in flight
\* sees the value written last
EncClock_static(t) ==
    /\ Threaded
    /\ last.th[t].job = "encode" /\ last.th[t].pc = "clock"
    /\ last' = [Stepped(t, [last.th[t] EXCEPT !.clk = now, !.pc = "build"]) EXCEPT
                    !.th = [x \in Threads |->
                               [@[x] EXCEPT !.expiration =
                                   UTime(now.sec + RGW_SWIFT_TOKEN_EXPIRATION, now.nsec)]]]
    /\ UNCHANGED <<now, store, wire, mint>>

\* lines 47-48
EncClock(t) ==
    /\ Threaded
    /\ last.th[t].job = "encode" /\ last.th[t].pc = "clock"
    /\ last' = Stepped(t,
           [last.th[t] EXCEPT !.clk = now, !.pc = "build",
               !.expiration = UTime(now.sec + RGW_SWIFT_TOKEN_EXPIRATION, now.nsec)])
    /\ UNCHANGED <<now, store, wire, mint>>

\* lines 50-52
EncBuild(t) ==
    /\ Threaded
    /\ last.th[t].job = "encode" /\ last.th[t].pc = "build"
    /\ LET f == last.th[t]
           r == build_token(Cells(last.user), last.key, f.rnd.nonce, f.expiration, <<>>)
       IN  last' = Stepped(t,
               [f EXCEPT !.pc = "done",
                   !.out = [ret |-> r.ret, bl |-> r.bl,
                            steps |-> <<"random", "clock", "build">>]])
    /\ UNCHANGED <<now, store, wire, mint>>

\* lines 57-89: what the token alone decides
ParseToken(token, info) ==
    IF ~HasPrefix(token)
    THEN [done |-> TRUE, out |-> Outcome(-EINVAL, "prefix", <<>>, <<>>, info)]
    ELSE LET body == SubSeq(token, PrefixLen + 1, Len(token))
         IN  IF Len(body) % 2 = 1
             THEN [done |-> TRUE, out |-> Outcome(-EINVAL, "length", <<>>, <<>>, info)]
             ELSE LET h == hex_to_buf(body)
                  IN  IF h.ret < 0
                      THEN [done |-> TRUE,
                            out |-> Outcome(h.ret, "hex", <<"hex">>, <<>>, info)]
                      ELSE LET p == DecodePayload(h.buf)
                           IN  IF ~p.ok
                               THEN [done |-> TRUE,
                                     out |-> Outcome(-EINVAL, "decode",
                                                     <<"hex", "decode">>, <<>>, info)]
                               ELSE [done |-> FALSE, buf |-> h.buf, p |-> p]

\* lines 57-89
VfyParse(t) ==
    /\ Threaded
    /\ last.th[t].job = "verify" /\ last.th[t].pc = "start"
    /\ LET r == ParseToken(last.token, last.th[t].info)
       IN  last' = Stepped(t,
               IF r.done THEN [last.th[t] EXCEPT !.pc = "done", !.out = r.out]
               ELSE [last.th[t] EXCEPT !.pc = "clock"])
    /\ UNCHANGED <<now, store, wire, mint>>

\* lines 90-93
VfyClock(t) ==
    /\ Threaded
    /\ last.th[t].job = "verify" /\ last.th[t].pc = "clock"
    /\ LET f == last.th[t]
           r == ParseToken(last.token, f.info)
       IN  last' = Stepped(t,
               IF TimeLess(r.p.expiration, UTime(now.sec, now.nsec), FALSE)
               THEN [f EXCEPT !.clk = now, !.pc = "done",
                        !.out = Outcome(-EPERM, "expired", <<"hex", "decode", "clock">>,
                                        r.p.os_user, f.info)]
               ELSE [f EXCEPT !.clk = now, !.pc = "lookup"])
    /\ UNCHANGED <<now, store, wire, mint>>

\* lines 95-96
VfyLookup(t) ==
    /\ Threaded
    /\ last.th[t].job = "verify" /\ last.th[t].pc = "lookup"
    /\ LET f == last.th[t]
           r == ParseToken(last.token, f.info)
           l == rgw_get_user_info_by_swift(store, 0, r.p.os_user, f.info)
       IN  last' = Stepped(t,
               IF l.ret < 0
               THEN [f EXCEPT !.snap = store, !.info = l.info, !.pc = "done",
                        !.out = Outcome(l.ret, "lookup",
                                        <<"hex", "decode", "clock", "lookup">>,
                                        r.p.os_user, l.info)]
               ELSE [f EXCEPT !.snap = store, !.info = l.info, !.pc = "build"])
    /\ UNCHANGED <<now, store, wire, mint>>

\* lines 98-117
VfyBuild(t) ==
    /\ Threaded
    /\ last.th[t].job = "verify" /\ last.th[t].pc = "build"
    /\ LET f == last.th[t]
           r == ParseToken(last.token, NoInfo)
       IN  last' = Stepped(t,
               [f EXCEPT !.pc = "done",
                   !.out = CompareTokens(r.buf, r.p,
                               build_token(r.p.os_user, f.info.swift_key, r.p.nonce,
                                           r.p.expiration, <<>>),
                               <<"hex", "decode", "clock", "lookup", "build">>,
                               f.info)])
    /\ UNCHANGED <<now, store, wire, mint>>

\* what the random source gives the calls in flight
ThreadRandom == {[ret |-> 0, nonce |-> NonceOf(1)], [ret |-> -EIO, nonce |-> <<>>]}

\* the clock value calls in flight see after the first: the first instant
\* after the TTL window of a token made at 0
ThreadClock == {[sec |-> RGW_SWIFT_TOKEN_EXPIRATION, nsec |-> 1]}

\* the clock moves while calls are in flight
ClockMoves(t) ==
    /\ Threaded
    /\ \E x \in Threads : last.th[x].pc # "done"
    /\ ClockBefore(now, t)
    /\ now' = t
    /\ UNCHANGED <<store, wire, mint, last>>

\* an account is rekeyed or removed while calls are in flight
StoreChanges(u, s) ==
    /\ Threaded
    /\ \E x \in Threads : last.th[x].pc # "done"
    /\ u \in DOMAIN store
    /\ store[u] # s
    /\ store' = IF s = <<>> THEN [v \in DOMAIN store \ {u} |-> store[v]]
                ELSE [store EXCEPT ![u] = s]
    /\ UNCHANGED <<now, wire, mint, last>>

NextThreads ==
    \/ \E u \in Rekeyed, rnd \in ThreadRandom : Encode(u, rnd)
    \/ Return
    \/ \E jobs \in [Threads -> JobKinds] : Fork(jobs)
    \/ \E t \in Threads, rnd \in ThreadRandom : EncRandom(t, rnd)
    \/ \E t \in Threads : EncClock(t)
    \/ \E t \in Threads : EncBuild(t)
    \/ \E t \in Threads : VfyParse(t)
    \/ \E t \in Threads : VfyClock(t)
    \/ \E t \in Threads : VfyLookup(t)
    \/ \E t \in Threads : VfyBuild(t)
    \/ \E t \in ThreadClock : ClockMoves(t)
    \/ \E u \in Rekeyed, s \in {<<>>, <<115>>} : StoreChanges(u, s)

SpecThreads == InitTamper /\ [][NextThreads]_vars

\* what the call of frame f returns when it runs alone and gets the
\* responses f got
Alone(f) ==
    IF f.job = "encode"
    THEN encode_token(last.user, last.key, <<>>, f.rnd, f.clk)
    ELSE rgw_swift_verify_signed_token(last.token, NoInfo,
             [now |-> f.clk, store |-> f.snap, fault |-> 0, guess |-> FALSE])

\* C12: in every interleaving of concurrent encode_token and
\* rgw_swift_verify_signed_token calls, each call returns what it returns
\* when run alone with the same clock, random and account-store responses.
C12_SameAsAlone ==
    Threaded
    => \A t \in Threads : last.th[t].pc = "done" => last.th[t].out = Alone(last.th[t])

C12_Witness ==
    /\ Threaded
    /\ last.mixed
    /\ \A t \in Threads : last.th[t].pc = "done"
    /\ \E t, x \in Threads :
          /\ last.th[t].job = "verify" /\ last.th[t].out.ret = 0
          /\ last.th[x].job = "encode" /\ last.th[x].out.ret = 0
          /\ last.th[x].clk # last.th[t].clk
          /\ last.th[t].out = Alone(last.th[t])

----------------------------------------------------------------------------
(* Expiration *)

Encoded == last.op = "encode"

\* the payload carried by the string the client presents
PresentedPayload == DecodePayload(hex_to_buf(Body(last.token)).buf)

\* C13: the expiration embedded in a token is the clock value read during
\* encode_token plus 900 seconds; verification of the unchanged token
\* decodes that value and compares it with the clock of the verification:
\* the token is rejected as expired exactly when that clock is later.
C13_ExpirationFixed ==
    /\ RGW_SWIFT_TOKEN_EXPIRATION = 15 * 60
    /\ (Encoded /\ last.out.ret = 0)
       => DecodePayload(last.out.bl).expiration
          = UTime(now.sec + RGW_SWIFT_TOKEN_EXPIRATION, now.nsec)
    /\ (Verified /\ last.how.kind = "asis")
       => /\ PresentedPayload.expiration
             = UTime(mint.t0.sec + RGW_SWIFT_TOKEN_EXPIRATION, mint.t0.nsec)
          /\ last.out.site = "expired"
             <=> ClockBefore([sec |-> mint.t0.sec + RGW_SWIFT_TOKEN_EXPIRATION,
                              nsec |-> mint.t0.nsec], now)

C13_Witness ==
    /\ Verified
    /\ last.how.kind = "asis"
    /\ mint.t0.sec = RGW_SWIFT_TOKEN_EXPIRATION
    /\ mint.t0.nsec = 1
    /\ ClockBefore(mint.t0, now)
    /\ PresentedPayload.expiration = UTime(2 * RGW_SWIFT_TOKEN_EXPIRATION, 1)
    /\ last.out.ret = 0

\* C14: when the random source fails, encode_token returns its error, and
\* does so after the one draw: the clock is not read, no payload is built,
\* the output buffer is as the caller passed it, and the client gets no
\* token.
C14_RandomFailure ==
    (Encoded /\ last.rnd.ret < 0)
    => /\ last.out.ret = last.rnd.ret
       /\ last.out.steps = <<"random">>
       /\ last.out.bl = <<>>
       /\ last.out.ret \notin {0, -EINVAL, -EPERM}

C14_Witness ==
    /\ Encoded
    /\ last.rnd.ret = -EIO
    /\ last.out.ret = -EIO
    /\ last.out.bl = <<>>
    /\ now.sec > 0

----------------------------------------------------------------------------
(* RGW_SWIFT_Auth_Get::execute.  A request gives the four values of      *)
(* s->env->get, each present or absent (a null pointer).  The reply tells *)
(* whether the function reached "done" and ended the headers, the ret it  *)
(* passed to set_req_state_err, the header lines printed and the calls    *)
(* made.                                                                  *)

Absent == [present |-> FALSE, val |-> <<>>]

Header(v) == [present |-> TRUE, val |-> v]

Request(user, key, url_prefix, os_url) ==
    [user |-> user, key |-> key, url_prefix |-> url_prefix, os_url |-> os_url]

\* the status set_req_state_err takes from ret: 204 on success, the errno
\* otherwise
set_req_state_err(ret) == IF ret < 0 THEN -ret ELSE ret

\* lines 167-171
Done(ret, headers, steps) ==
    [ended |-> TRUE, ret |-> ret, status |-> set_req_state_err(ret),
     headers |-> headers, steps |-> steps]

\* "string user_str = user" with user a null pointer is undefined: the
\* constructor throws or reads through the pointer, and nothing of the
\* function runs after it
NullString == [ended |-> FALSE, ret |-> -EPERM, status |-> 0,
               headers |-> <<>>, steps |-> <<>>]

StorageUrl(req) == [name |-> "X-Storage-Url", value |-> <<req.os_url.val, req.url_prefix.val>>]

TokenHeader(bl) == [name |-> "X-Storage-Token", value |-> StorageToken(bl)]

\* lines 144-165, with user_str built
Authenticate(req, user_str, env) ==
    LET l == rgw_get_user_info_by_swift(env.store, env.fault, Cells(user_str), NoInfo)
    IN  IF l.ret < 0
        THEN Done(l.ret, <<>>, <<"lookup">>)
        ELSE IF l.info.swift_key # req.key.val
        THEN Done(-EPERM, <<>>, <<"lookup">>)
        ELSE LET e == encode_token(l.info.swift_name, l.info.swift_key, <<>>,
                                   env.rnd, env.now)
             IN  IF e.ret < 0
                 THEN Done(e.ret, <<StorageUrl(req)>>, <<"lookup", "encode">>)
                 ELSE Done(204, <<StorageUrl(req), TokenHeader(e.bl)>>,
                           <<"lookup", "encode">>)

\* env.null_string is what the build makes of line 131 for a null user:
\* "fault", or "empty" for a constructor that yields the empty string
execute(req, env) ==
    IF ~req.user.present /\ env.null_string = "fault"
    THEN NullString
    ELSE IF ~req.os_url.present \/ ~req.url_prefix.present
    THEN Done(-EINVAL, <<>>, <<>>)
    ELSE IF ~req.key.present \/ ~req.user.present
    THEN Done(-EPERM, <<>>, <<>>)
    ELSE Authenticate(req, req.user.val, env)

\* the token of the reply, <<>> when it has none
TokenOf(out) ==
    IF \E i \in 1..Len(out.headers) : out.headers[i].name = "X-Storage-Token"
    THEN (CHOOSE h \in {out.headers[i] : i \in 1..Len(out.headers)} :
              h.name = "X-Storage-Token").value
    ELSE <<>>

\* the requests of the model: every pairing of a user header and a key
\* header, and the server configuration missing in part or whole
Credentials ==
    {Absent} \cup {Header(u) : u \in Users \cup {Stranger}}

PresentedKeys == {Absent, Header(<<115>>), Header(LongSecret(97))}

Requests ==
    {Request(u, k, Header(<<112>>), Header(<<117>>)) : u \in Credentials, k \in PresentedKeys}
    \cup {Request(u, Header(<<115>>), p, o) :
             u \in {Absent, Header(<<98>>)},
             p \in {Absent, Header(<<112>>)}, o \in {Absent, Header(<<117>>)}}

\* how the random source, the store and the build answer a request: the
\* failures only where the request gets that far
Answers(req) ==
    {[rnd |-> r, fault |-> f, null_string |-> n] :
        r \in RandomResults, f \in StoreFaults, n \in {"fault", "empty"}}
    \ {a \in [rnd : RandomResults, fault : StoreFaults, null_string : {"fault", "empty"}] :
        \/ a.null_string = "fault" /\ req.user.present
        \/ a.fault # 0 /\ req # Request(Header(<<98>>), Header(<<115>>), Header(<<112>>), Header(<<117>>))
        \/ a.rnd.ret < 0 /\ req # Request(Header(<<98>>), Header(<<115>>), Header(<<112>>), Header(<<117>>))
        \/ a.rnd.ret < 0 /\ a.fault # 0}

\* a swift auth request is served; the client keeps the token of the reply
Execute(req, ans) ==
    LET env == [now |-> now, store |-> store, fault |-> ans.fault, rnd |-> ans.rnd,
                null_string |-> ans.null_string]
        out == execute(req, env)
    IN  /\ Idle
        /\ last' = [op |-> "execute", req |-> req, env |-> env, out |-> out]
        /\ IF TokenOf(out) = <<>>
           THEN UNCHANGED <<wire, mint>>
           ELSE /\ wire' = TokenOf(out)
                /\ mint' = [user |-> req.user.val, key |-> store[req.user.val],
                            t0 |-> now, nonce |-> ans.rnd.nonce]
        /\ UNCHANGED <<now, store>>

\* the client presents the token it was issued
VerifyIssued ==
    /\ wire # <<>>
    /\ Verify(How("asis", 0, 0), 0, FALSE)

NextAuth ==
    \/ \E t \in ClockValues : Tick(t)
    \/ \E u \in Rekeyed, s \in Secrets : SetKey(u, s)
    \/ \E u \in Rekeyed : RemoveUser(u)
    \/ \E req \in Requests : \E ans \in Answers(req) : Execute(req, ans)
    \/ VerifyIssued
    \/ Return

SpecAuth == Init /\ [][NextAuth]_vars

Executed == last.op = "execute"

\* the request names an account of the store and carries its secret
Authentic ==
    /\ last.req.user.present
    /\ last.req.key.present
    /\ last.env.fault = 0
    /\ last.req.user.val \in DOMAIN store
    /\ store[last.req.user.val] = last.req.key.val

\* the reply ends with an error status and carries no token
Refused(out) ==
    /\ out.ended
    /\ out.ret < 0
    /\ out.status # 204
    /\ TokenOf(out) = <<>>

\* the reply ends with status 204 and carries a token
Issued(out) ==
    /\ out.ended
    /\ out.status = 204
    /\ TokenOf(out) # <<>>

\* C15, as claimed: execute emits a token and ends with 204 only if the
\* lookup of the presented user succeeded and the presented key equals the
\* stored secret; in every other case it ends with an error status and
\* emits no token.
C15_IssuedOnlyIfAuthentic ==
    Executed
    => /\ (TokenOf(last.out) # <<>> \/ last.out.status = 204) => Authentic
       /\ Issued(last.out) \/ Refused(last.out)

\* C15, what holds of the code: a token or a 204 goes only to an authentic
\* request; every request with an X-Auth-User header is either issued a
\* token or refused with an error status; a request without that header
\* gets no token and no 204, but the function may not reach its end.
C15_NoTokenUnlessAuthentic ==
    Executed
    => /\ (TokenOf(last.out) # <<>> \/ last.out.status = 204)
          => (Authentic /\ Issued(last.out))
       /\ last.req.user.present => (Issued(last.out) \/ Refused(last.out))
       /\ ~last.req.user.present
          => (TokenOf(last.out) = <<>> /\ last.out.status # 204 /\ last.out.steps = <<>>)

C15_Witness ==
    /\ Executed
    /\ ~last.req.user.present
    /\ last.req.key.present
    /\ ~last.out.ended
    /\ ~Refused(last.out)
    /\ TokenOf(last.out) = <<>>

\* C16, as claimed: a request without the X-Auth-User or the X-Auth-Key
\* header is rejected with an error status before the account store or the
\* encoder is called, and execute reaches its end.
C16_MissingCredentialsRejected ==
    (Executed /\ (~last.req.user.present \/ ~last.req.key.present))
    => /\ Refused(last.out)
       /\ last.out.steps = <<>>

\* C16, what holds of the code: a request with a user header and without a
\* key header is rejected with -EPERM (-EINVAL when the configuration is
\* missing) before any call; for a request without a user header neither
\* the store nor the encoder is called, but the function reaches its end
\* only in a build whose string constructor survives the null pointer.
C16_MissingKeyRejected ==
    (Executed /\ (~last.req.user.present \/ ~last.req.key.present))
    => /\ last.out.steps = <<>>
       /\ TokenOf(last.out) = <<>>
       /\ (last.req.user.present \/ last.env.null_string = "empty")
          => /\ Refused(last.out)
             /\ last.out.ret = (IF last.req.os_url.present /\ last.req.url_prefix.present
                                THEN -EPERM ELSE -EINVAL)
       /\ (~last.req.user.present /\ last.env.null_string = "fault")
          => ~last.out.ended

C16_Witness ==
    /\ Executed
    /\ ~last.req.user.present
    /\ last.env.null_string = "fault"
    /\ ~last.out.ended
    /\ last.out.status = 0

----------------------------------------------------------------------------
(* Key derivation: build_token on secrets of every length up to two       *)
(* wraps of the key, with bytes of several patterns                       *)

MaxSecretLen == 41

FoldPatterns == 1..5

\* the secret of length n and pattern pat
SecretOf(n, pat) ==
    [i \in 1..n |->
        CASE pat = 1 -> 2 ^ ((i - 1) % 8)
          [] pat = 2 -> 255
          [] pat = 3 -> (i * 37) % 256
          [] pat = 4 -> IF i = n THEN 128 ELSE 0
          [] pat = 5 -> i]

\* the key of the MAC that ends the token bytes bl
MacKey(bl) == bl[Len(bl)][5]

\* a token is made with the secret, then verified against a store that
\* holds the secret for the user
Fold(n, pat) ==
    LET secret == SecretOf(n, pat)
        e == encode_token(<<97>>, secret, <<>>, [ret |-> 0, nonce |-> NonceOf(1)], now)
        again == build_token(Cells(<<97>>), secret, NonceOf(1),
                             UTime(now.sec + RGW_SWIFT_TOKEN_EXPIRATION, now.nsec), <<>>)
        v == rgw_swift_verify_signed_token(StorageToken(e.bl), NoInfo,
                 [now |-> now, store |-> [u \in {<<97>>} |-> secret],
                  fault |-> 0, guess |-> FALSE])
    IN  /\ Idle
        /\ last' = [op |-> "fold", secret |-> secret, key |-> MacKey(e.bl),
                    again |-> MacKey(again.bl), verified |-> v.ret]
        /\ UNCHANGED <<now, store, wire, mint>>

NextFold ==
    \/ \E n \in 0..MaxSecretLen, pat \in FoldPatterns : Fold(n, pat)
    \/ Return

SpecFold == InitTamper /\ [][NextFold]_vars

Folded == last.op = "fold"

\* C17: the derived key has 20 bytes, and bit b of its byte j is set exactly
\* when some secret byte at a position i with i mod 20 = j has bit b set
\* (so the empty secret gives the all-zero key); a second derivation from
\* the same secret gives the same key, and the verifier derives the key the
\* encoder used.
C17_ExactFold ==
    Folded
    => /\ Len(last.key) = DIGESTSIZE
       /\ \A j \in 1..DIGESTSIZE :
             /\ last.key[j] \in 0..255
             /\ \A b \in 0..7 :
                   BitSet(last.key[j], b)
                   <=> \E i \in 1..Len(last.secret) :
                          (i - 1) % DIGESTSIZE = j - 1 /\ BitSet(last.secret[i], b)
       /\ last.secret = <<>> => last.key = [j \in 1..DIGESTSIZE |-> 0]
       /\ last.again = last.key
       /\ last.verified = 0

C17_Witness ==
    /\ Folded
    /\ Len(last.secret) = 2 * DIGESTSIZE + 1
    /\ last.key[1] = 1 + 16
    /\ last.key[2] = 2 + 32
    /\ last.key[DIGESTSIZE] = 8 + 128
    /\ last.verified = 0

----------------------------------------------------------------------------
(* Wire format *)

\* the four bytes of n, least significant first
LE4(n) == [i \in 1..4 |-> Byte((n \div (256 ^ (i - 1))) % 256)]

\* the two lowercase hex digits of byte n
HexPair(n) == <<Chr(HexChars[(n \div 16) + 1]), Chr(HexChars[(n % 16) + 1])>>

\* the payload bytes of a token for user u with the nonce and the clock of
\* the call: length and bytes of the name, the nonce, seconds and
\* nanoseconds of the expiration, integers least significant byte first
PayloadBytes(u, nonce, t) ==
    LE4(Len(u)) \o Cells(u) \o Reverse(nonce)
    \o LE4(t.sec + RGW_SWIFT_TOKEN_EXPIRATION) \o LE4(t.nsec)

\* C18: the token string the adapter emits is "AUTH_rgwtk" followed by two
\* lowercase hex digits for each byte of serialize(payload) and then of the
\* MAC over it, the payload being user name, nonce, expiration in that
\* order; the verifier reads the same three fields out of it and accepts it.
C18_WireFormat ==
    (Executed /\ Issued(last.out))
    => LET tok == TokenOf(last.out)
           u == last.req.user.val
           ser == PayloadBytes(u, last.env.rnd.nonce, now)
           mac == calc_hmac_sha1(FoldKey(store[u]), ser)
           n == Len(ser)
       IN  /\ Len(tok) = PrefixLen + 2 * (n + DIGESTSIZE)
           /\ SubSeq(tok, 1, PrefixLen) = [i \in 1..PrefixLen |-> Chr(PrefixChars[i])]
           /\ \A i \in 1..n :
                 <<tok[PrefixLen + 2 * i - 1], tok[PrefixLen + 2 * i]>> = HexPair(ser[i][2])
           /\ \A j \in 1..DIGESTSIZE :
                 /\ tok[PrefixLen + 2 * (n + j) - 1] = HexOfCell(mac[j], 1)
                 /\ tok[PrefixLen + 2 * (n + j)] = HexOfCell(mac[j], 2)
           /\ hex_to_buf(Body(tok)).buf = ser \o mac
           /\ DecodePayload(ser \o mac).ok
           /\ DecodePayload(ser \o mac).os_user = Cells(u)
           /\ DecodePayload(ser \o mac).nonce = last.env.rnd.nonce
           /\ rgw_swift_verify_signed_token(tok, NoInfo,
                  [now |-> now, store |-> store, fault |-> 0, guess |-> FALSE]).ret = 0

C18_Witness ==
    /\ Executed
    /\ Issued(last.out)
    /\ now.sec > 0
    /\ now.nsec = 1
    /\ Len(store[last.req.user.val]) > DIGESTSIZE
    /\ Len(TokenOf(last.out)) = 92
    /\ SubSeq(TokenOf(last.out), PrefixLen + 1, PrefixLen + 10)
       = <<Chr("0"), Chr("1"), Chr("0"), Chr("0"), Chr("0"), Chr("0"), Chr("0"), Chr("0"),
           Chr("6"), Chr("1")>>

----------------------------------------------------------------------------
(* Two encode_token calls for one account at one clock instant *)

MaxPairNonce == 2

\* the nonces of the two draws: some differ in every byte, some in one
PairNonces ==
    {NonceOf(i) : i \in 1..MaxPairNonce}
    \cup {[NonceOf(1) EXCEPT ![8] = Byte(0)], [NonceOf(1) EXCEPT ![1] = Byte(0)]}

EncodeTwice(u, n1, n2) ==
    /\ Idle
    /\ u \in DOMAIN store
    /\ last' = [op |-> "pair", user |-> u, n1 |-> n1, n2 |-> n2,
                first |-> encode_token(u, store[u], <<>>, [ret |-> 0, nonce |-> n1], now),
                second |-> encode_token(u, store[u], <<>>, [ret |-> 0, nonce |-> n2], now)]
    /\ UNCHANGED <<now, store, wire, mint>>

NextPair ==
    \/ \E t \in ClockValues : Tick(t)
    \/ \E u \in Rekeyed, s \in Secrets : SetKey(u, s)
    \/ \E u \in Users, n1 \in PairNonces, n2 \in PairNonces : EncodeTwice(u, n1, n2)
    \/ Return

SpecPair == Init /\ [][NextPair]_vars

Paired == last.op = "pair"

\* C19: two encode_token calls for the same user and secret at the same
\* clock instant give different tokens when the nonces drawn differ, and
\* the same token when they are equal.
C19_UniqueByNonce ==
    Paired
    => /\ last.first.ret = 0 /\ last.second.ret = 0
       /\ last.n1 # last.n2
          => /\ last.first.bl # last.second.bl
             /\ StorageToken(last.first.bl) # StorageToken(last.second.bl)
       /\ last.n1 = last.n2
          => StorageToken(last.first.bl) = StorageToken(last.second.bl)

C19_Witness ==
    /\ Paired
    /\ last.n1 # last.n2
    /\ \A j \in 2..8 : last.n1[j] = last.n2[j]
    /\ now.sec > 0
    /\ StorageToken(last.first.bl) # StorageToken(last.second.bl)
    /\ Len(StorageToken(last.first.bl)) = Len(StorageToken(last.second.bl))

----------------------------------------------------------------------------
(* Non-hex input *)

\* the character is none of 0-9, a-f
NotHexDigit(c) ==
    /\ c[1] = "c"
    /\ c[2] \notin {"0", "1", "2", "3", "4", "5", "6", "7", "8", "9",
                    "a", "b", "c", "d", "e", "f"}

\* C20: a prefixed token with an even number of characters after the
\* prefix, one of which is no hex digit, is rejected with -EINVAL at the
\* hex decoding: no payload is decoded, the clock is not read and no
\* account is looked up.
C20_NonHexRejected ==
    (/\ Verified
     /\ ~LacksPrefix(last.token)
     /\ Len(Body(last.token)) % 2 = 0
     /\ \E i \in 1..Len(Body(last.token)) : NotHexDigit(Body(last.token)[i]))
    => /\ last.out.site = "hex"
       /\ last.out.ret = -EINVAL
       /\ last.out.steps = <<"hex">>
       /\ last.out.info = NoInfo

C20_Witness ==
    /\ Verified
    /\ last.how.kind = "nonhex"
    /\ last.how.a = Len(Body(wire))
    /\ NotHexDigit(last.token[Len(last.token)])
    /\ KeyCurrent
    /\ ClockBefore(now, Expiry(mint.t0))
    /\ last.out.site = "hex"

----------------------------------------------------------------------------
(* Order of the checks: tokens that fail more than one of them *)

\* pairs of changes made to the held token, the first then the second
OrderMixes ==
    {<<How("noprefix", 1, 0), How("cut", 1, 0)>>,
     <<How("noprefix", PrefixLen, 0), How("nonhex", 1, 0)>>,
     <<How("cut", 1, 0), How("nonhex", 1, 0)>>,
     <<How("cut", 2 * DIGESTSIZE + 2, 0), How("nonhex", 2, 0)>>,
     <<How("cut", 2 * DIGESTSIZE + 2, 0), How("asis", 0, 0)>>,
     <<How("pad", 2, 0), How("asis", 0, 0)>>,
     <<How("asis", 0, 0), How("asis", 0, 0)>>}

\* rgw_swift_verify_signed_token on the held token changed twice
VerifyMixed(h1, h2, fault) ==
    LET token == Present(Present(wire, h1), h2)
        env == [now |-> now, store |-> store, fault |-> fault, guess |-> FALSE]
    IN  /\ Idle
        /\ wire # <<>>
        /\ last' = [op |-> "verify", how |-> How("mixed", h1, h2),
                    token |-> token, env |-> env,
                    out |-> rgw_swift_verify_signed_token(token, NoInfo, env)]
        /\ UNCHANGED <<now, store, wire, mint>>

\* the first instant after the TTL window of a token made at 0
OrderClock == {[sec |-> RGW_SWIFT_TOKEN_EXPIRATION, nsec |-> 1]}

NextOrder ==
    \/ \E t \in OrderClock : Tick(t)
    \/ \E u \in Rekeyed : RemoveUser(u)
    \/ \E u \in Rekeyed, rnd \in ThreadRandom : Encode(u, rnd)
    \/ \E m \in OrderMixes, fault \in StoreFaults : VerifyMixed(m[1], m[2], fault)
    \/ VerifyForged
    \/ Return

SpecOrder == InitTamper /\ [][NextOrder]_vars

OddBody(token) == (Len(token) - PrefixLen) % 2 = 1

HasNonHex(token) == \E i \in 1..Len(Body(token)) : NotHexDigit(Body(token)[i])

\* what the characters after the prefix decode to
PayloadOf(token) == DecodePayload(hex_to_buf(Body(token)).buf)

\* the account the payload names is not one the store answers for
NoAccount(p, env) ==
    \/ env.fault # 0
    \/ ~AllBytes(p.os_user)
    \/ Plain(p.os_user) \notin DOMAIN env.store

\* C21: the checks are applied in the order prefix, even length, hex
\* decoding, payload decoding, expiration, account lookup, comparison.  The
\* result is that of the first check the token fails, and the steps taken
\* are those before it and no other: nothing is looked up or rebuilt after
\* a failure.
C21_CheckOrder ==
    Verified =>
        LET t == last.token
            env == last.env
            out == last.out
            p == PayloadOf(t)
        IN  IF LacksPrefix(t)
            THEN out.site = "prefix" /\ out.steps = <<>>
            ELSE IF OddBody(t)
            THEN out.site = "length" /\ out.steps = <<>>
            ELSE IF HasNonHex(t)
            THEN out.site = "hex" /\ out.steps = <<"hex">>
            ELSE IF ~p.ok
            THEN out.site = "decode" /\ out.steps = <<"hex", "decode">>
            ELSE IF TimeLess(p.expiration, UTime(env.now.sec, env.now.nsec), FALSE)
            THEN out.site = "expired" /\ out.steps = <<"hex", "decode", "clock">>
            ELSE IF NoAccount(p, env)
            THEN /\ out.site = "lookup"
                 /\ out.steps = <<"hex", "decode", "clock", "lookup">>
            ELSE /\ out.site \in {"build", "length_mismatch", "mismatch", "ok"}
                 /\ out.steps = <<"hex", "decode", "clock", "lookup", "build">>

\* a forged token of an unknown account, with a wrong MAC and expired, is
\* rejected as expired: no account was looked up, no MAC computed
C21_Witness ==
    /\ Verified
    /\ last.how.kind = "forge"
    /\ last.how.a = Stranger
    /\ ~LacksPrefix(last.token) /\ ~OddBody(last.token) /\ ~HasNonHex(last.token)
    /\ PayloadOf(last.token).ok
    /\ NoAccount(PayloadOf(last.token), last.env)
    /\ last.out.site = "expired"
    /\ last.out.steps = <<"hex", "decode", "clock">>

----------------------------------------------------------------------------
(* The instant of expiration *)

\* the held token is presented as it is
HeldAsIs == Verified /\ last.how.kind = "asis" /\ wire # <<>>

\* C22: the boundary is inclusive.  A token presented at the very instant
\* of its expiration (now = T0 + TTL, the same sub-second fraction) is not
\* expired, and is accepted when its account still has the secret; a token
\* is rejected as expired only when its expiration is strictly before the
\* clock.
C22_BoundaryInclusive ==
    /\ (HeldAsIs /\ now = Expiry(mint.t0))
       => /\ last.out.site # "expired"
          /\ KeyCurrent => (last.out.ret = 0 /\ last.out.site = "ok")
    /\ (HeldAsIs /\ last.out.site = "expired")
       => ClockBefore(Expiry(mint.t0), now)

C22_Witness ==
    /\ HeldAsIs
    /\ KeyCurrent
    /\ mint.t0.nsec = 1
    /\ now = Expiry(mint.t0)
    /\ last.out.ret = 0

----------------------------------------------------------------------------
(* Expired tokens, presented again later *)

\* presentations by one client
MaxLater == 3

LaterHows == {How("asis", 0, 0), How("pad", 2, 0)}

\* clock values of the presentations: after the TTL window of a token made
\* at 0, the later one with the smaller sub-second fraction
LaterClock == {[sec |-> RGW_SWIFT_TOKEN_EXPIRATION + 1, nsec |-> 1],
               [sec |-> RGW_SWIFT_TOKEN_EXPIRATION + 2, nsec |-> 0]}

\* the client has presented tokens and was not idle since
Watching == Verified /\ "was" \in DOMAIN last

\* rgw_swift_verify_signed_token at time t >= now on what the client
\* presents; was holds the strings rejected as expired by the calls before
Later(how, t) ==
    LET token == Present(wire, how)
        env == [now |-> t, store |-> store, fault |-> 0, guess |-> FALSE]
        out == rgw_swift_verify_signed_token(token, NoInfo, env)
        was == IF Watching THEN last.expired ELSE {}
    IN  /\ wire # <<>>
        /\ Idle \/ Watching
        /\ (IF Watching THEN last.seen ELSE 0) < MaxLater
        /\ ~ClockBefore(t, now)
        /\ now' = t
        /\ last' = [op |-> "verify", how |-> how, token |-> token, env |-> env,
                    out |-> out,
                    seen |-> (IF Watching THEN last.seen ELSE 0) + 1,
                    was |-> was,
                    expired |-> IF out.site = "expired" THEN was \cup {token}
                                ELSE was,
                    moved |-> Watching /\ (last.moved \/ ClockBefore(now, t)),
                    changed |-> Watching /\ last.changed]
        /\ UNCHANGED <<store, wire, mint>>

\* an account is added, rekeyed or removed between two presentations
Provision(u, s) ==
    /\ Watching
    /\ IF u \in DOMAIN store THEN store[u] # s ELSE s # NoStore
    /\ store' = IF s = NoStore THEN [v \in DOMAIN store \ {u} |-> store[v]]
                ELSE [v \in DOMAIN store \cup {u} |-> IF v = u THEN s ELSE store[v]]
    /\ last' = [last EXCEPT !.changed = TRUE]
    /\ UNCHANGED <<now, wire, mint>>

NextLater ==
    \/ \E u \in Rekeyed, rnd \in ThreadRandom : Encode(u, rnd)
    \/ \E how \in LaterHows, t \in {now} \cup LaterClock : Later(how, t)
    \/ \E t \in {now} \cup LaterClock : Later(How("forge", Stranger, 0), t)
    \/ \E u \in Rekeyed \cup {Stranger}, s \in {NoStore, <<115>>} : Provision(u, s)
    \/ Return

SpecLater == InitTamper /\ [][NextLater]_vars

\* C23: expiry is permanent.  While the clock does not go back, a string
\* that was once rejected as expired is rejected as expired at every later
\* presentation, whatever accounts were added, rekeyed or removed since.
C23_ExpiryPermanent ==
    (Watching /\ last.token \in last.was)
    => (last.out.site = "expired" /\ last.out.ret = -EPERM)

C23_Witness ==
    /\ Watching
    /\ last.how.kind = "asis"
    /\ last.token \in last.was
    /\ last.seen = MaxLater
    /\ last.moved
    /\ last.changed
    /\ mint.user \in DOMAIN store /\ store[mint.user] = mint.key
    /\ last.out.site = "expired"

----------------------------------------------------------------------------
(* The secret enters the verification through its fold only *)

\* secrets an account may have instead of the one the store holds: those
\* of the model, the short one followed by a zero byte, and a long one
\* whose last byte has no bit the first lacks
OtherSecrets == Secrets \cup {<<115, 0>>, LongSecret(0)}

\* for each secret, the others with the same OR-folded key
Alike == [s \in OtherSecrets |-> {x \in OtherSecrets : FoldsAlike(x, s)}]

\* the store with the secret of account u replaced
WithSecret(env, u, s) ==
    [env EXCEPT !.store = [v \in DOMAIN env.store |->
                              IF v = u THEN s ELSE env.store[v]]]

\* the two calls end alike: same result, same place, same steps, same account
SameResult(a, b) ==
    /\ a.ret = b.ret
    /\ a.site = b.site
    /\ a.steps = b.steps
    /\ a.user = b.user
    /\ a.info.swift_name = b.info.swift_name

\* C24: for every token and clock value, two account stores that differ
\* only in one account's secret, both secrets having the same OR-folded
\* key, give the same verification result.
C24_FoldOnly ==
    Verified =>
        \A u \in DOMAIN last.env.store :
            \A s \in Alike[last.env.store[u]] :
                SameResult(last.out,
                           rgw_swift_verify_signed_token(
                               last.token, NoInfo, WithSecret(last.env, u, s)))

\* a token accepted under the secret it was made with is accepted under
\* another secret of the same fold
C24_Witness ==
    /\ HeldAsIs
    /\ KeyCurrent
    /\ last.out.ret = 0
    /\ \E s \in Alike[mint.key] :
          /\ s # mint.key
          /\ Len(s) > DIGESTSIZE
          /\ rgw_swift_verify_signed_token(
                 last.token, NoInfo, WithSecret(last.env, mint.user, s)).ret = 0

----------------------------------------------------------------------------
(* The caller's RGWUserInfo *)

\* a record the caller filled before the call: an account of no store
Someone == [swift_name |-> <<121>>, swift_key |-> <<107>>]

CallerInfos == {NoInfo, Someone}

\* rgw_swift_verify_signed_token with the caller's record info
VerifyInto(how, info, fault) ==
    LET token == Present(wire, how)
        env == [now |-> now, store |-> store, fault |-> fault, guess |-> FALSE]
    IN  /\ Idle
        /\ last' = [op |-> "verify", how |-> how, token |-> token, env |-> env,
                    caller |-> info,
                    out |-> rgw_swift_verify_signed_token(token, info, env)]
        /\ UNCHANGED <<now, store, wire, mint>>

NextFrame ==
    \/ \E t \in OrderClock : Tick(t)
    \/ \E u \in Rekeyed : RemoveUser(u)
    \/ \E u \in Rekeyed, rnd \in ThreadRandom : Encode(u, rnd)
    \/ /\ wire # <<>>
       /\ \E how \in Variants(wire), info \in CallerInfos : VerifyInto(how, info, 0)
    \/ /\ wire # <<>>
       /\ \E fault \in StoreFaults \ {0} : VerifyInto(How("asis", 0, 0), Someone, fault)
    \/ \E how \in Forgeries, info \in CallerInfos : VerifyInto(how, info, 0)
    \/ Return

SpecFrame == InitTamper /\ [][NextFrame]_vars

\* a call whose caller's record is known
Into == Verified /\ "caller" \in DOMAIN last

\* the call went as far as the account lookup
ReachedLookup == \E i \in 1..Len(last.out.steps) : last.out.steps[i] = "lookup"

\* C25: the caller's RGWUserInfo is left as it was whenever the call fails
\* at the prefix, length, hex-decoding, payload-decoding or expiration
\* check; it is written by the account lookup only: it differs after the
\* call only if the lookup was reached, and a call that gets past the lookup
\* leaves the account's record in it, also when the MAC comparison fails.
C25_InfoFrame ==
    Into =>
        /\ last.out.site \in {"prefix", "length", "hex", "decode", "expired"}
           => last.out.info = last.caller
        /\ last.out.info # last.caller => ReachedLookup
        /\ last.out.site \in {"length_mismatch", "mismatch", "ok"}
           => /\ ReachedLookup
              /\ last.out.info.swift_name \in DOMAIN last.env.store
              /\ last.out.info.swift_key = last.env.store[last.out.info.swift_name]

\* an expired token of an account the store knows leaves the record the
\* caller had filled
C25_Witness ==
    /\ Into
    /\ last.caller = Someone
    /\ last.how.kind = "asis"
    /\ mint.user \in DOMAIN store
    /\ last.out.site = "expired"
    /\ last.out.info = Someone

----------------------------------------------------------------------------
(* The header lines of a reply *)

HasHeader(out, name) ==
    \E i \in 1..Len(out.headers) : out.headers[i].name = name

\* C26, as claimed: the headers are all or nothing.  X-Storage-Url is
\* emitted only in replies that also carry X-Storage-Token and end with
\* status 204; a request that ends with an error status (a failure of the
\* random source inside encode_token included) has emitted neither header.
C26_HeadersAllOrNothing ==
    Executed
    => /\ HasHeader(last.out, "X-Storage-Url")
          => (HasHeader(last.out, "X-Storage-Token") /\ last.out.status = 204)
       /\ (last.out.ended /\ last.out.status # 204) => last.out.headers = <<>>

\* C26, what holds of the code: X-Storage-Token is emitted only after
\* X-Storage-Url and only in replies of status 204, and X-Storage-Url only
\* to an authentic request; but a reply carries X-Storage-Url alone, with
\* an error status, exactly when encode_token failed, since line 153 prints
\* it before line 155 calls encode_token.
C26_UrlBeforeEncode ==
    Executed
    => /\ HasHeader(last.out, "X-Storage-Token")
          => /\ last.out.headers[1].name = "X-Storage-Url"
             /\ Len(last.out.headers) = 2
             /\ last.out.status = 204
       /\ HasHeader(last.out, "X-Storage-Url") => Authentic
       /\ (HasHeader(last.out, "X-Storage-Url") /\ ~HasHeader(last.out, "X-Storage-Token"))
          <=> (Authentic /\ last.req.os_url.present /\ last.req.url_prefix.present
               /\ last.env.rnd.ret < 0)
       /\ (Authentic /\ last.req.os_url.present /\ last.req.url_prefix.present
           /\ last.env.rnd.ret < 0)
          => (last.out.ended /\ last.out.ret = last.env.rnd.ret
              /\ last.out.status = -last.env.rnd.ret)

C26_Witness ==
    /\ Executed
    /\ Authentic
    /\ last.env.rnd.ret = -EIO
    /\ last.out.ended
    /\ last.out.status = EIO
    /\ last.out.headers = <<StorageUrl(last.req)>>

----------------------------------------------------------------------------
(* The handler: RGWHandler_SWIFT_Auth::get_op gives every GET request the  *)
(* one static object rgw_swift_auth_get and sets its pointer s to the      *)
(* request's state.  Requests are served by threads that take get_op, the  *)
(* reading of the headers and the writing of the reply one at a time.      *)
(* last.s is the pointer of the static object: the thread whose request   *)
(* state it points to, 0 before the first init.                            *)

NoReq == 0

\* a request with the secret of its account, and one with a wrong key
HandlerRequests ==
    {Request(Header(<<97>>), Header(LongSecret(97)), Header(<<112>>), Header(<<117>>)),
     Request(Header(<<98>>), Header(LongSecret(97)), Header(<<112>>), Header(<<117>>))}

Handling == last.op = "handler"

\* requests arrive, one for each thread; nothing is read or written yet
Arrive(reqs) ==
    /\ Idle
    /\ last' = [op |-> "handler", s |-> NoReq,
                th |-> [t \in Threads |->
                          [pc |-> "get_op", own |-> reqs[t], from |-> NoReq,
                           got |-> reqs[t], to |-> NoReq, apart |-> TRUE]],
                resp |-> [t \in Threads |-> <<>>]]
    /\ UNCHANGED <<now, store, wire, mint>>

\* get_op of thread t: op = &rgw_swift_auth_get; op->init(s).  The threads
\* that are between their get_op and the end of their execute are no
\* longer apart from the others.
GetOp(t) ==
    /\ Handling
    /\ last.th[t].pc = "get_op"
    /\ last' = [last EXCEPT
                  !.s = t,
                  !.th = [x \in Threads |->
                            IF x = t THEN [@[x] EXCEPT !.pc = "execute"]
                            ELSE IF @[x].pc \in {"execute", "reply"}
                            THEN [@[x] EXCEPT !.apart = FALSE]
                            ELSE @[x]]]
    /\ UNCHANGED <<now, store, wire, mint>>

\* lines 126-129 in thread t: the headers are read through s
ExecRead(t) ==
    /\ Handling
    /\ last.th[t].pc = "execute"
    /\ last' = [last EXCEPT !.th[t].pc = "reply",
                            !.th[t].from = last.s,
                            !.th[t].got = last.th[last.s].own]
    /\ UNCHANGED <<now, store, wire, mint>>

\* lines 131-171 in thread t: the reply to the headers read is written
\* through s
ExecReply(t) ==
    LET env == [now |-> now, store |-> store, fault |-> 0,
                rnd |-> [ret |-> 0, nonce |-> NonceOf(t)], null_string |-> "empty"]
    IN  /\ Handling
        /\ last.th[t].pc = "reply"
        /\ last' = [last EXCEPT !.th[t].pc = "done",
                                !.th[t].to = last.s,
                                !.resp[last.s] = Append(@, execute(last.th[t].got, env))]
        /\ UNCHANGED <<now, store, wire, mint>>

\* every reply is written
Served ==
    /\ Handling
    /\ \A t \in Threads : last.th[t].pc = "done"
    /\ last' = NoCall
    /\ UNCHANGED <<now, store, wire, mint>>

NextHandler ==
    \/ \E t \in OrderClock : Tick(t)
    \/ \E u \in Rekeyed : RemoveUser(u)
    \/ \E reqs \in [Threads -> HandlerRequests] : Arrive(reqs)
    \/ \E t \in Threads : GetOp(t)
    \/ \E t \in Threads : ExecRead(t)
    \/ \E t \in Threads : ExecReply(t)
    \/ Served

SpecHandler == InitTamper /\ [][NextHandler]_vars

\* thread t has read the headers of its own request, and written its reply
\* to it
OwnRequest(t) ==
    /\ last.th[t].pc \in {"reply", "done"} => last.th[t].from = t
    /\ last.th[t].pc = "done" => last.th[t].to = t

\* C27, as claimed: when requests interleave get_op and execute, each
\* execute still reads the headers of, and writes the reply of, the request
\* for which its get_op was called.
C27_RequestIsolation ==
    Handling => \A t \in Threads : OwnRequest(t)

\* C27, what holds of the code: every get_op hands out the one object and
\* points it to the request of the caller, so an execute reads and writes
\* the request of the latest get_op; it is the thread's own as long as no
\* other get_op ran between the thread's get_op and the end of its execute.
C27_IsolatedWhenApart ==
    Handling =>
        /\ \A t \in Threads : last.th[t].apart => OwnRequest(t)
        /\ \A t \in Threads :
              last.th[t].pc # "get_op"
              => /\ last.s # NoReq
                 /\ last.th[last.s].pc # "get_op"
        /\ \A t \in Threads :
              last.th[t].pc \in {"reply", "done"}
              => last.th[t].got = last.th[last.th[t].from].own

\* the request with the wrong key is answered with a token of the other
\* request's account, and the other request gets no reply
C27_Witness ==
    /\ Handling
    /\ \A t \in Threads : last.th[t].pc = "done"
    /\ \E a, b \in Threads :
          /\ a # b
          /\ ~last.th[a].apart
          /\ last.th[a].from = a
          /\ last.th[a].to = b
          /\ last.th[a].own.user.val \in DOMAIN store
          /\ store[last.th[a].own.user.val] = last.th[a].own.key.val
          /\ store[last.th[b].own.user.val] # last.th[b].own.key.val
          /\ last.resp[a] = <<>>
          /\ \E i \in 1..Len(last.resp[b]) : Issued(last.resp[b][i])

----------------------------------------------------------------------------
(* rbd bench-write: do_bench_write and rbd_bencher (rbd.cc).  The issuing  *)
(* thread runs the for loop of do_bench_write; the completion callbacks    *)
(* run in the threads of the image library.  Every access to in_flight is *)
(* made with rbd_bencher::lock held, so start_write, one test of          *)
(* wait_for and one callback are each one step.  Widths are scaled down:  *)
(* uint64_t has UintBits bits, int and unsigned have IntBits bits.        *)

UintBits == 4

IntBits == 3

UintMod == 2 ^ UintBits

IntMod == 2 ^ IntBits

INT_MAX == (IntMod \div 2) - 1

\* conversion of a uint64_t to int: the low bits, read as two's complement
ToInt(x) == (((x % IntMod) + IntMod \div 2) % IntMod) - IntMod \div 2

\* the largest io_size, io_bytes and in-range io_threads of the model
MaxIoSize == 2

MaxIoBytes == 4

MaxIoThreads == 2

BenchSizes == 1..MaxIoSize

\* io_bytes: small ones, and the largest uint64_t
BenchBytes == (0..MaxIoBytes) \cup {UintMod - 1}

\* io_threads: those an int holds, and the first ones it does not hold
BenchThreads == (0..MaxIoThreads) \cup {INT_MAX + 1, INT_MAX + 2, IntMod}

\* rbd_bencher(&image): nothing in flight; pending is the number of writes
\* the image library has taken and not yet completed
rbd_bencher == [in_flight |-> 0, pending |-> 0]

\* start_write without the test of in_flight against max
start_write_unchecked(b, max) ==
    [ok |-> TRUE,
     b |-> [in_flight |-> ToInt(b.in_flight + 1), pending |-> b.pending + 1]]

\* rbd_bencher::start_write(int max, ...): lines 477-486
start_write(b, max) ==
    IF b.in_flight >= max
    THEN [ok |-> FALSE, b |-> b]
    ELSE [ok |-> TRUE,
          b |-> [in_flight |-> ToInt(b.in_flight + 1), pending |-> b.pending + 1]]

\* the test of rbd_bencher::wait_for(int max), line 490: TRUE while it waits
wait_for(b, max) == b.in_flight > max

\* rbd_bencher_completion: lines 499-509
rbd_bencher_completion(b) ==
    [in_flight |-> ToInt(b.in_flight - 1), pending |-> b.pending - 1]

Benching == last.op = "bench"

\* do_bench_write is called: lines 511-531
BenchStart(io_size, io_threads, io_bytes) ==
    /\ Idle
    /\ last' = [op |-> "bench", io_size |-> io_size, io_threads |-> io_threads,
                io_bytes |-> io_bytes, pc |-> "for", off |-> 0, ios |-> 0,
                b |-> rbd_bencher]
    /\ UNCHANGED <<now, store, wire, mint>>

\* line 532: off < io_bytes
ForTest ==
    /\ Benching
    /\ last.pc = "for"
    /\ last' = [last EXCEPT !.pc = IF last.off < last.io_bytes
                                   THEN "wait_for" ELSE "drain"]
    /\ UNCHANGED <<now, store, wire, mint>>

\* line 533: b.wait_for(io_threads - 1) returns
WaitFor ==
    /\ Benching
    /\ last.pc = "wait_for"
    /\ ~wait_for(last.b, ToInt((last.io_threads + UintMod - 1) % UintMod))
    /\ last' = [last EXCEPT !.pc = "start_write"]
    /\ UNCHANGED <<now, store, wire, mint>>

\* lines 534-544: one call of b.start_write(io_threads, off, ...); ios++
\* when it started a write, off += io_size when it did not
StartWrite ==
    /\ Benching
    /\ last.pc = "start_write"
    /\ LET r == start_write(last.b, ToInt(last.io_threads))
       IN  last' = IF r.ok
                   THEN [last EXCEPT !.b = r.b, !.ios = (@ + 1) % IntMod]
                   ELSE [last EXCEPT !.pc = "for",
                                     !.off = (@ + last.io_size) % UintMod]
    /\ UNCHANGED <<now, store, wire, mint>>

\* lines 546-555: b.wait_for(0) returns, and do_bench_write after it
Drain ==
    /\ Benching
    /\ last.pc = "drain"
    /\ ~wait_for(last.b, 0)
    /\ last' = [last EXCEPT !.pc = "returned"]
    /\ UNCHANGED <<now, store, wire, mint>>

\* a write the library has taken completes: rbd_bencher_completion runs
Complete ==
    /\ Benching
    /\ last.b.pending > 0
    /\ last' = [last EXCEPT !.b = rbd_bencher_completion(last.b)]
    /\ UNCHANGED <<now, store, wire, mint>>

\* the caller has the result of do_bench_write
BenchDone ==
    /\ Benching
    /\ last.pc = "returned"
    /\ last' = NoCall
    /\ UNCHANGED <<now, store, wire, mint>>

\* the steps of the issuing thread
Issuer == ForTest \/ WaitFor \/ StartWrite \/ Drain

NextBench ==
    \/ \E io_size \in BenchSizes, io_threads \in BenchThreads, io_bytes \in BenchBytes :
          BenchStart(io_size, io_threads, io_bytes)
    \/ ForTest
    \/ WaitFor
    \/ StartWrite
    \/ Drain
    \/ Complete
    \/ BenchDone

SpecBench == InitTamper /\ [][NextBench]_vars

\* C28: under every interleaving of the issuing thread with the completion
\* callbacks, 0 <= in_flight <= io_threads, in_flight is the number of
\* writes started and not yet completed, and a write is started only when
\* in_flight < io_threads.
C28_InFlightWindow ==
    Benching =>
        /\ 0 <= last.b.in_flight
        /\ last.b.in_flight <= last.io_threads
        /\ last.b.in_flight = last.b.pending
        /\ start_write(last.b, ToInt(last.io_threads)).ok
           => last.b.in_flight < last.io_threads

\* the window is full while a completion and the next offset are pending
C28_Witness ==
    /\ Benching
    /\ last.io_threads = MaxIoThreads
    /\ last.b.in_flight = last.io_threads
    /\ last.b.pending = last.io_threads
    /\ last.off > 0
    /\ last.pc = "wait_for"
    /\ last.ios > last.io_threads

----------------------------------------------------------------------------
(* Termination of do_bench_write: the issuing thread keeps running, and    *)
(* every write the library has taken completes.                            *)

SpecBenchFair ==
    /\ InitTamper
    /\ [][NextBench]_vars
    /\ WF_vars(Issuer)
    /\ WF_vars(Complete)

Returned == Benching /\ last.pc = "returned"

\* C29, as claimed: for io_size >= 1 and every io_threads >= 0 and
\* io_bytes >= 0, if every issued write eventually completes,
\* do_bench_write eventually returns, and when it returns in_flight is 0.
C29_BenchTerminates ==
    /\ Benching ~> Returned
    /\ [](Returned => (last.b.in_flight = 0 /\ last.b.pending = 0))

\* io_threads is at least 1 and an int holds it
InRange ==
    /\ 1 <= last.io_threads
    /\ last.io_threads <= INT_MAX

\* the call waits in wait_for(io_threads - 1) with nothing in flight
Stuck ==
    /\ Benching
    /\ last.pc = "wait_for"
    /\ last.b.in_flight = 0
    /\ last.b.pending = 0
    /\ wait_for(last.b, ToInt((last.io_threads + UintMod - 1) % UintMod))

\* C29, what holds of the code: when do_bench_write returns nothing is in
\* flight; the final wait_for(0) always returns, and so does every
\* wait_for(io_threads - 1) when io_threads is between 1 and INT_MAX.  With
\* io_threads = 0 and io_bytes > 0 the first wait_for(io_threads - 1) waits
\* for "in_flight <= -1" for ever, nothing being in flight that could
\* complete; and no call that waits so is one with io_threads in range.
C29_WaitsReturn ==
    /\ [](Returned => (last.b.in_flight = 0 /\ last.b.pending = 0))
    /\ (Benching /\ last.pc = "drain") ~> Returned
    /\ (Benching /\ InRange /\ last.pc = "wait_for")
       ~> (Benching /\ last.pc = "start_write")
    /\ [](Stuck => [](Stuck /\ ~InRange))
    /\ []((Benching /\ last.pc = "wait_for" /\ last.io_threads = 0) => Stuck)

C29_Witness ==
    /\ Stuck
    /\ last.io_threads = 0
    /\ last.io_bytes > 0
    /\ last.off = 0
    /\ last.ios = 0

\* a call with io_threads in range has returned after writes at more than
\* one offset
C29_ReturnedInRange ==
    /\ Returned
    /\ InRange
    /\ last.io_threads = MaxIoThreads
    /\ last.ios > last.io_threads
    /\ last.b.in_flight = 0

====
